---- MODULE Spec2Model ----
(***************************************************************************)
(* The color value object of src/index.ts and its three codecs (Hex, RGB,  *)
(* HSL), with the numeric helpers they share.                              *)
(*                                                                         *)
(* Numbers.  A JavaScript number x is represented by the integer 1000 * x, *)
(* so 255 is 255000 and an alpha of 0.25 is 250.  Every number the model   *)
(* handles has at most three decimals.  NaN, Infinity and undefined (an    *)
(* omitted argument) are three integers outside the range of every other   *)
(* value.  The arithmetic of the codecs is done exactly, on integers; the  *)
(* program does it in IEEE-754 double precision, which differs from the    *)
(* exact result only where the exact value handed to Math.round is a half  *)
(* and the double lands just below it.  The ...HalfLost tables list those  *)
(* arguments, for all valid arguments of rgbToHsl and hslToRgb.            *)
(*                                                                         *)
(* Strings are TLA+ strings; the character at (1-based) position i of s is *)
(* SubSeq(s, i, i).                                                        *)
(***************************************************************************)
EXTENDS Integers, Sequences, FiniteSets, TLC

\* --------------------------------------------------- errors and fields

\* A thrown ColorError of the given kind.
Throw(kind) == [error |-> kind]

\* The private fields of a Color, in the order the constructor assigns them.
Attributes ==
    <<"hexCode", "red", "green", "blue", "hue", "saturation", "lightness", "alpha">>

\* `const name = value;` followed by the rest of a function body: the value is
\* computed once and the rest of the body reads it.
Let(value, rest(_)) == rest(value)

\* ------------------------------------------------------------- numbers

NaN == -2000000001
undefined == -2000000002
Infinity == 2000000000

\* The number n (an integer) in the model's representation.
N(n) == n * 1000

isNaN(x) == x = NaN \/ x = undefined

\* JavaScript truthiness of a number or undefined, as in `alpha && (...)`.
Truthy(x) == x # undefined /\ x # NaN /\ x # 0

Abs(x) == IF x < 0 THEN -x ELSE x

\* Math.round: the nearest integer, a half going up (toward +Infinity).
MathRound(x) ==
    IF isNaN(x) THEN NaN
    ELSE IF x = Infinity THEN Infinity
    ELSE 1000 * ((x + 500) \div 1000)

\* round(number, decimals = 0): Math.round(number * offset) / offset.
round(number, decimals) ==
    LET offset == 10 ^ decimals
    IN  IF isNaN(number) THEN NaN
        ELSE IF number = Infinity THEN Infinity
        ELSE MathRound(number * offset) \div offset

\* defaultAlpha(alpha?)
\* defaultAlpha without its rounding: the alpha is kept as it was given.
defaultAlphaUnrounded(alpha) == IF alpha # undefined THEN alpha ELSE N(1)

\* defaultAlpha testing the alpha for truth: alpha ? round(alpha, 2) : 1
defaultAlphaIfTruthy(alpha) == IF Truthy(alpha) THEN round(alpha, 2) ELSE N(1)

defaultAlpha(alpha) == IF alpha # undefined THEN round(alpha, 2) ELSE N(1)

\* ------------------------------------------------------------- strings

Ch(s, i) == IF 1 <= i /\ i <= Len(s) THEN SubSeq(s, i, i) ELSE ""

UpperLetters == "ABCDEFGHIJKLMNOPQRSTUVWXYZ"
LowerLetters == "abcdefghijklmnopqrstuvwxyz"
HexDigitsUpper == "0123456789ABCDEF"
HexDigitsLower == "0123456789abcdef"
DecimalDigits == "0123456789"

\* The 1-based position of the one-character string c in s, 0 if absent.
IndexOf(s, c) ==
    IF \E i \in 1..Len(s) : Ch(s, i) = c
    THEN CHOOSE i \in 1..Len(s) : Ch(s, i) = c
    ELSE 0

LowerChars == {Ch(LowerLetters, i) : i \in 1..Len(LowerLetters)}

UpperChar(c) ==
    IF c \in LowerChars THEN Ch(UpperLetters, IndexOf(LowerLetters, c)) ELSE c

RECURSIVE toUpperCase(_)
toUpperCase(s) ==
    IF s = "" THEN ""
    ELSE UpperChar(Ch(s, 1)) \o toUpperCase(SubSeq(s, 2, Len(s)))

\* The characters of [A-Fa-f0-9] and of \d
HexChars ==
    {Ch(HexDigitsUpper, i) : i \in 1..Len(HexDigitsUpper)}
    \cup {Ch(HexDigitsLower, i) : i \in 1..Len(HexDigitsLower)}
DigitChars == {Ch(DecimalDigits, i) : i \in 1..Len(DecimalDigits)}

IsHexDigit(c) == c \in HexChars
IsDigit(c) == c \in DigitChars

\* String.prototype.includes
Includes(s, sub) ==
    \E i \in 1..(Len(s) - Len(sub) + 1) : SubSeq(s, i, i + Len(sub) - 1) = sub

\* (n).toString(16).padStart(2, "0") for an integer n in 0..255 (not scaled).
ToHex2(n) == Ch(HexDigitsLower, (n \div 16) + 1) \o Ch(HexDigitsLower, (n % 16) + 1)

\* ----------------------------------------------------------- HSL codec

\* Arguments at which the double handed to Math.round is just below an exact
\* half (see the module comment).
\* <<saturation, lightness>> in hundredths.
ChromaHalfLost ==
    { <<60,75>>, <<100,5>> }

\* <<saturation, lightness>> in hundredths.
ZeroHalfLost ==
    { <<75,40>>, <<75,60>>, <<80,50>>, <<100,95>> }

\* <<hue, saturation, lightness>>, the last two in hundredths.
PositionHalfLost ==
    { <<0,75,40>>, <<0,75,60>>, <<0,80,50>>, <<0,100,95>>, <<2,100,50>>, <<4,100,25>>, <<5,5,84>>,
      <<5,40,15>>, <<5,45,16>>, <<5,50,60>>, <<5,80,58>>, <<5,80,70>>, <<5,80,94>>, <<5,95,16>>,
      <<6,75,25>>, <<6,100,50>>, <<10,25,12>>, <<10,25,80>>, <<10,50,15>>, <<10,50,35>>,
      <<10,75,20>>, <<10,80,50>>, <<10,90,25>>, <<10,100,30>>, <<10,100,50>>, <<10,100,58>>,
      <<10,100,70>>, <<10,100,86>>, <<10,100,94>>, <<12,100,25>>, <<15,75,16>>, <<20,40,50>>,
      <<20,50,12>>, <<20,50,36>>, <<20,75,40>>, <<20,75,60>>, <<20,80,50>>, <<20,100,15>>,
      <<20,100,25>>, <<20,100,35>>, <<20,100,45>>, <<25,25,84>>, <<30,47,90>>, <<30,49,90>>,
      <<30,51,90>>, <<30,53,90>>, <<30,55,90>>, <<32,100,75>>, <<34,50,75>>, <<35,100,72>>,
      <<38,25,75>>, <<40,20,75>>, <<40,50,72>>, <<40,100,65>>, <<40,100,75>>, <<40,100,85>>,
      <<50,10,75>>, <<50,25,72>>, <<50,25,80>>, <<50,50,85>>, <<55,5,48>>, <<55,8,75>>,
      <<55,20,72>>, <<55,30,24>>, <<55,40,65>>, <<55,40,85>>, <<55,45,84>>, <<55,50,60>>,
      <<55,64,50>>, <<55,70,60>>, <<55,80,6>>, <<55,80,18>>, <<55,80,30>>, <<55,80,70>>,
      <<55,90,60>>, <<55,95,52>>, <<55,95,84>>, <<55,96,50>>, <<60,60,75>>, <<60,100,5>>,
      <<62,100,50>>, <<65,5,48>>, <<65,8,75>>, <<65,20,72>>, <<65,40,65>>, <<65,40,85>>,
      <<65,45,84>>, <<65,50,60>>, <<65,70,60>>, <<66,75,75>>, <<66,100,50>>, <<70,10,75>>,
      <<70,25,72>>, <<70,25,80>>, <<70,50,65>>, <<70,50,75>>, <<70,50,85>>, <<70,80,50>>,
      <<70,100,6>>, <<70,100,10>>, <<70,100,22>>, <<70,100,26>>, <<70,100,30>>, <<70,100,46>>,
      <<70,100,50>>, <<70,100,70>>, <<74,100,50>>, <<80,20,75>>, <<80,50,72>>, <<82,25,75>>,
      <<85,100,20>>, <<85,100,72>>, <<86,50,75>>, <<90,47,90>>, <<90,49,90>>, <<90,51,90>>,
      <<90,53,90>>, <<90,55,90>>, <<92,100,25>>, <<95,25,84>>, <<100,40,50>>, <<100,50,12>>,
      <<100,50,36>>, <<100,75,40>>, <<100,75,60>>, <<100,80,50>>, <<100,100,15>>, <<100,100,25>>,
      <<100,100,35>>, <<100,100,45>>, <<105,75,16>>, <<108,100,25>>, <<110,100,86>>,
      <<110,100,94>>, <<115,5,84>>, <<115,16,50>>, <<115,30,60>>, <<115,32,50>>, <<115,40,15>>,
      <<115,40,35>>, <<115,45,16>>, <<115,50,40>>, <<115,50,60>>, <<115,55,84>>, <<115,64,50>>,
      <<115,70,8>>, <<115,70,24>>, <<115,72,25>>, <<115,80,30>>, <<115,80,50>>, <<115,80,54>>,
      <<115,80,58>>, <<115,80,62>>, <<115,80,70>>, <<115,80,86>>, <<115,80,94>>, <<115,90,40>>,
      <<115,90,60>>, <<115,95,16>>, <<115,95,48>>, <<115,96,50>>, <<115,100,20>>, <<116,100,25>>,
      <<120,75,40>>, <<120,75,60>>, <<120,80,50>>, <<120,100,95>>, <<122,100,50>>, <<125,5,84>>,
      <<125,80,94>>, <<130,25,12>>, <<130,25,80>>, <<130,40,50>>, <<130,50,15>>, <<130,50,25>>,
      <<130,50,35>>, <<130,50,45>>, <<130,60,50>>, <<130,70,75>>, <<130,75,20>>, <<130,80,50>>,
      <<130,90,25>>, <<130,100,10>>, <<130,100,30>>, <<130,100,50>>, <<130,100,54>>,
      <<130,100,58>>, <<130,100,62>>, <<130,100,66>>, <<130,100,70>>, <<130,100,74>>,
      <<130,100,82>>, <<130,100,86>>, <<130,100,94>>, <<135,75,16>>, <<138,100,50>>,
      <<145,25,84>>, <<145,40,25>>, <<145,80,50>>, <<145,100,4>>, <<145,100,12>>, <<145,100,20>>,
      <<145,100,28>>, <<145,100,36>>, <<145,100,44>>, <<145,100,80>>, <<146,50,25>>,
      <<146,100,50>>, <<150,47,90>>, <<150,49,90>>, <<150,51,90>>, <<150,53,90>>, <<150,55,90>>,
      <<152,100,75>>, <<158,25,75>>, <<160,20,75>>, <<160,50,20>>, <<160,50,72>>, <<160,60,25>>,
      <<160,75,8>>, <<160,75,24>>, <<160,75,40>>, <<160,80,50>>, <<160,100,55>>, <<160,100,65>>,
      <<160,100,75>>, <<160,100,85>>, <<160,100,95>>, <<166,100,50>>, <<168,100,75>>,
      <<170,10,75>>, <<170,25,72>>, <<170,50,85>>, <<174,75,75>>, <<174,100,50>>, <<175,5,48>>,
      <<175,8,75>>, <<175,20,72>>, <<175,20,80>>, <<175,30,8>>, <<175,30,24>>, <<175,40,65>>,
      <<175,40,85>>, <<175,45,84>>, <<175,50,60>>, <<175,60,20>>, <<175,60,80>>, <<175,64,50>>,
      <<175,70,60>>, <<175,80,6>>, <<175,80,10>>, <<175,80,18>>, <<175,80,22>>, <<175,80,26>>,
      <<175,80,30>>, <<175,80,46>>, <<175,80,50>>, <<175,80,70>>, <<175,88,25>>, <<175,90,60>>,
      <<175,95,52>>, <<175,95,84>>, <<175,96,50>>, <<175,100,80>>, <<176,100,75>>, <<180,60,75>>,
      <<180,100,5>>, <<184,100,75>>, <<185,5,48>>, <<185,8,75>>, <<185,20,72>>, <<185,20,80>>,
      <<185,30,8>>, <<185,30,24>>, <<185,40,65>>, <<185,40,85>>, <<185,45,84>>, <<185,50,60>>,
      <<185,60,20>>, <<185,60,80>>, <<185,64,50>>, <<185,70,60>>, <<185,80,6>>, <<185,80,10>>,
      <<185,80,18>>, <<185,80,22>>, <<185,80,26>>, <<185,80,30>>, <<185,80,46>>, <<185,80,50>>,
      <<185,80,70>>, <<185,88,25>>, <<185,90,60>>, <<185,95,52>>, <<185,95,84>>, <<185,96,50>>,
      <<185,100,80>>, <<186,75,75>>, <<186,100,50>>, <<190,10,75>>, <<190,25,72>>, <<190,50,85>>,
      <<192,100,75>>, <<194,100,50>>, <<200,20,75>>, <<200,50,20>>, <<200,50,72>>, <<200,60,25>>,
      <<200,75,8>>, <<200,75,24>>, <<200,75,40>>, <<200,80,50>>, <<200,100,55>>, <<200,100,65>>,
      <<200,100,75>>, <<200,100,85>>, <<200,100,95>>, <<202,25,75>>, <<208,100,75>>,
      <<210,47,90>>, <<210,49,90>>, <<210,51,90>>, <<210,53,90>>, <<210,55,90>>, <<214,50,25>>,
      <<214,100,50>>, <<215,25,84>>, <<215,40,25>>, <<215,80,50>>, <<215,100,4>>, <<215,100,12>>,
      <<215,100,20>>, <<215,100,28>>, <<215,100,36>>, <<215,100,44>>, <<215,100,80>>,
      <<222,100,50>>, <<225,75,16>>, <<230,25,12>>, <<230,25,80>>, <<230,40,50>>, <<230,50,15>>,
      <<230,50,25>>, <<230,50,35>>, <<230,50,45>>, <<230,60,50>>, <<230,70,75>>, <<230,75,20>>,
      <<230,80,50>>, <<230,90,25>>, <<230,100,10>>, <<230,100,30>>, <<230,100,50>>,
      <<230,100,54>>, <<230,100,58>>, <<230,100,62>>, <<230,100,66>>, <<230,100,70>>,
      <<230,100,74>>, <<230,100,82>>, <<230,100,86>>, <<230,100,94>>, <<235,5,84>>, <<235,80,94>>,
      <<238,100,50>>, <<240,75,40>>, <<240,75,60>>, <<240,80,50>>, <<240,100,95>>, <<242,100,50>>,
      <<244,100,25>>, <<245,5,84>>, <<245,10,60>>, <<245,16,50>>, <<245,20,4>>, <<245,20,12>>,
      <<245,20,36>>, <<245,20,44>>, <<245,20,80>>, <<245,30,40>>, <<245,30,60>>, <<245,32,50>>,
      <<245,40,5>>, <<245,40,15>>, <<245,40,25>>, <<245,40,35>>, <<245,40,45>>, <<245,45,16>>,
      <<245,45,48>>, <<245,48,50>>, <<245,50,40>>, <<245,50,60>>, <<245,55,52>>, <<245,55,84>>,
      <<245,56,75>>, <<245,60,20>>, <<245,64,50>>, <<245,70,8>>, <<245,70,24>>, <<245,70,40>>,
      <<245,70,60>>, <<245,72,25>>, <<245,80,10>>, <<245,80,30>>, <<245,80,50>>, <<245,80,54>>,
      <<245,80,58>>, <<245,80,62>>, <<245,80,66>>, <<245,80,70>>, <<245,80,74>>, <<245,80,82>>,
      <<245,80,86>>, <<245,80,94>>, <<245,88,75>>, <<245,90,40>>, <<245,90,60>>, <<245,95,16>>,
      <<245,95,48>>, <<245,96,50>>, <<245,100,20>>, <<246,50,50>>, <<246,75,25>>, <<246,100,50>>,
      <<250,100,94>>, <<255,75,16>>, <<258,100,50>>, <<260,20,25>>, <<260,40,50>>, <<260,50,4>>,
      <<260,50,12>>, <<260,50,20>>, <<260,50,28>>, <<260,50,36>>, <<260,50,44>>, <<260,50,80>>,
      <<260,60,75>>, <<260,75,40>>, <<260,75,60>>, <<260,80,50>>, <<260,100,5>>, <<260,100,15>>,
      <<260,100,25>>, <<260,100,35>>, <<260,100,45>>, <<262,25,25>>, <<262,50,50>>, <<262,75,75>>,
      <<262,100,50>>, <<265,25,84>>, <<270,47,90>>, <<270,49,90>>, <<270,51,90>>, <<270,53,90>>,
      <<270,55,90>>, <<272,100,75>>, <<274,50,75>>, <<274,100,50>>, <<275,25,48>>, <<275,40,75>>,
      <<275,50,40>>, <<275,50,60>>, <<275,80,50>>, <<275,100,20>>, <<275,100,56>>, <<275,100,64>>,
      <<275,100,72>>, <<275,100,80>>, <<275,100,88>>, <<275,100,96>>, <<276,100,25>>,
      <<280,20,75>>, <<286,100,50>>, <<288,100,75>>, <<290,10,75>>, <<290,25,72>>, <<290,25,80>>,
      <<290,25,88>>, <<290,30,25>>, <<290,50,65>>, <<290,50,75>>, <<290,50,85>>, <<290,60,50>>,
      <<290,70,25>>, <<290,75,20>>, <<290,80,50>>, <<290,90,75>>, <<290,100,6>>, <<290,100,10>>,
      <<290,100,14>>, <<290,100,18>>, <<290,100,22>>, <<290,100,26>>, <<290,100,30>>,
      <<290,100,34>>, <<290,100,38>>, <<290,100,42>>, <<290,100,46>>, <<290,100,50>>,
      <<290,100,70>>, <<290,100,90>>, <<292,100,25>>, <<295,8,75>>, <<295,20,72>>, <<300,60,75>>,
      <<300,100,5>>, <<305,8,75>>, <<305,20,72>>, <<308,100,25>>, <<310,10,75>>, <<310,25,72>>,
      <<310,25,80>>, <<310,25,88>>, <<310,30,25>>, <<310,50,65>>, <<310,50,75>>, <<310,50,85>>,
      <<310,60,50>>, <<310,70,25>>, <<310,75,20>>, <<310,80,50>>, <<310,90,75>>, <<310,100,6>>,
      <<310,100,10>>, <<310,100,14>>, <<310,100,18>>, <<310,100,22>>, <<310,100,26>>,
      <<310,100,30>>, <<310,100,34>>, <<310,100,38>>, <<310,100,42>>, <<310,100,46>>,
      <<310,100,50>>, <<310,100,70>>, <<310,100,90>>, <<312,100,75>>, <<314,100,50>>,
      <<320,20,75>>, <<324,100,25>>, <<325,25,48>>, <<325,40,75>>, <<325,50,40>>, <<325,50,60>>,
      <<325,80,50>>, <<325,100,20>>, <<325,100,56>>, <<325,100,64>>, <<325,100,72>>,
      <<325,100,80>>, <<325,100,88>>, <<325,100,96>>, <<326,50,75>>, <<326,100,50>>,
      <<328,100,75>>, <<330,47,90>>, <<330,49,90>>, <<330,51,90>>, <<330,53,90>>, <<330,55,90>>,
      <<335,25,84>>, <<338,25,25>>, <<338,50,50>>, <<338,75,75>>, <<338,100,50>>, <<340,20,25>>,
      <<340,40,50>>, <<340,50,4>>, <<340,50,12>>, <<340,50,20>>, <<340,50,28>>, <<340,50,36>>,
      <<340,50,44>>, <<340,50,80>>, <<340,60,75>>, <<340,75,40>>, <<340,75,60>>, <<340,80,50>>,
      <<340,100,5>>, <<340,100,15>>, <<340,100,25>>, <<340,100,35>>, <<340,100,45>>,
      <<342,100,50>>, <<345,75,16>>, <<350,100,94>>, <<354,50,50>>, <<354,75,25>>, <<354,100,50>>,
      <<355,5,84>>, <<355,10,60>>, <<355,16,50>>, <<355,20,4>>, <<355,20,12>>, <<355,20,36>>,
      <<355,20,44>>, <<355,20,80>>, <<355,30,40>>, <<355,30,60>>, <<355,32,50>>, <<355,40,5>>,
      <<355,40,15>>, <<355,40,25>>, <<355,40,35>>, <<355,40,45>>, <<355,45,16>>, <<355,45,48>>,
      <<355,48,50>>, <<355,50,40>>, <<355,50,60>>, <<355,55,52>>, <<355,55,84>>, <<355,56,75>>,
      <<355,60,20>>, <<355,64,50>>, <<355,70,8>>, <<355,70,24>>, <<355,70,40>>, <<355,70,60>>,
      <<355,72,25>>, <<355,80,10>>, <<355,80,30>>, <<355,80,50>>, <<355,80,54>>, <<355,80,58>>,
      <<355,80,62>>, <<355,80,66>>, <<355,80,70>>, <<355,80,74>>, <<355,80,82>>, <<355,80,86>>,
      <<355,80,94>>, <<355,88,75>>, <<355,90,40>>, <<355,90,60>>, <<355,95,16>>, <<355,95,48>>,
      <<355,96,50>>, <<355,100,20>>, <<356,100,25>>, <<358,100,50>>, <<360,75,40>>, <<360,75,60>>,
      <<360,80,50>>, <<360,100,95>> }

validateHsl(hue, saturation, lightness, alpha) ==
    IF isNaN(hue) \/ hue < 0 \/ hue >= N(360) THEN Throw("InvalidHSLCode")
    ELSE IF isNaN(saturation) \/ saturation < 0 \/ saturation > N(1)
    THEN Throw("InvalidHSLCode")
    ELSE IF isNaN(lightness) \/ lightness < 0 \/ lightness > N(1)
    THEN Throw("InvalidHSLCode")
    ELSE IF Truthy(alpha) /\ (isNaN(alpha) \/ alpha < 0 \/ alpha > N(1))
    THEN Throw("InvalidHSLCode")
    ELSE [error |-> "none",
          hue |-> round(hue, 0),
          saturation |-> round(saturation, 2),
          lightness |-> round(lightness, 2),
          alpha |-> defaultAlpha(alpha)]

\* round((component + lightnessPrime) * 255), the sum given in units of
\* 1/1200000; lost: the double product is just below the half.
RoundChannel(sum, lost) ==
    LET scaled == 255 * sum + 600000
        up == scaled \div 1200000
    IN  IF scaled % 1200000 = 0 /\ lost THEN N(up - 1) ELSE N(up)

hslToRgb(hue, saturation, lightness, alpha) ==
    Let(validateHsl(hue, saturation, lightness, alpha), LAMBDA hsl :
        IF hsl.error # "none" THEN hsl
        ELSE
        LET h == hsl.hue \div 1000            \* degrees
            s == hsl.saturation \div 10       \* hundredths
            l == hsl.lightness \div 10        \* hundredths
            \* 1 - |2 * lightness - 1|, in hundredths
            spread == 100 - Abs(2 * l - 100)
            \* 1 - |(huePrime % 2) - 1|, in sixtieths
            ramp == 60 - Abs((h % 120) - 60)
            \* chroma, position and lightnessPrime in units of 1/1200000
            chroma == 120 * spread * s
            position == 2 * spread * s * ramp
            lightnessPrime == 12000 * l - 60 * spread * s
            C == RoundChannel(chroma + lightnessPrime, <<s, l>> \in ChromaHalfLost)
            X == RoundChannel(position + lightnessPrime, <<h, s, l>> \in PositionHalfLost)
            Z == RoundChannel(lightnessPrime, <<s, l>> \in ZeroHalfLost)
            \* huePrimeToRGB, with huePrime = h / 60
            primes == IF h < 60 THEN <<C, X, Z>>
                      ELSE IF h < 120 THEN <<X, C, Z>>
                      ELSE IF h < 180 THEN <<Z, C, X>>
                      ELSE IF h < 240 THEN <<Z, X, C>>
                      ELSE IF h < 300 THEN <<X, Z, C>>
                      ELSE <<C, Z, X>>
        IN  [error |-> "none",
             red |-> primes[1], green |-> primes[2], blue |-> primes[3],
             alpha |-> hsl.alpha])

\* ----------------------------------------------------------- RGB codec

\* <<sector offset, numerator, delta>>.
HueHalfLost ==
    { <<0,-62,240>>, <<0,-31,120>>, <<2,-234,240>>, <<2,-230,240>>, <<2,-207,216>>,
      <<2,-195,200>>, <<2,-184,192>>, <<2,-170,240>>, <<2,-161,168>>, <<2,-156,160>>,
      <<2,-153,216>>, <<2,-138,144>>, <<2,-136,192>>, <<2,-119,168>>, <<2,-117,120>>,
      <<2,-115,120>>, <<2,-102,144>>, <<2,-92,96>>, <<2,-85,120>>, <<2,-78,80>>, <<2,-69,72>>,
      <<2,-68,96>>, <<2,-51,72>>, <<2,-46,48>>, <<2,-39,40>>, <<2,-34,48>>, <<2,-23,24>>,
      <<2,-17,24>>, <<2,1,24>>, <<2,2,48>>, <<2,3,72>>, <<2,4,96>>, <<2,5,120>>, <<2,6,144>>,
      <<2,7,120>>, <<2,7,168>>, <<2,8,192>>, <<2,9,216>>, <<2,10,240>>, <<2,14,240>>, <<4,5,24>>,
      <<4,9,40>>, <<4,10,48>>, <<4,15,72>>, <<4,18,80>>, <<4,20,96>>, <<4,25,120>>, <<4,27,120>>,
      <<4,29,120>>, <<4,30,144>>, <<4,35,168>>, <<4,36,160>>, <<4,40,192>>, <<4,45,200>>,
      <<4,45,216>>, <<4,50,240>>, <<4,54,240>>, <<4,58,240>> }

\* <<delta, max + min>>.
SaturationHalfLost ==
    { <<51,81>>, <<51,83>>, <<51,427>>, <<51,429>> }

validateRgb(red, green, blue, alpha) ==
    IF \E color \in {red, green, blue} : isNaN(color) \/ color < 0 \/ color > N(255)
    THEN Throw("InvalidRGBCode")
    ELSE IF Truthy(alpha) /\ (isNaN(alpha) \/ alpha < 0 \/ alpha > N(1))
    THEN Throw("InvalidRGBCode")
    ELSE [error |-> "none",
          red |-> MathRound(red),
          green |-> MathRound(green),
          blue |-> MathRound(blue),
          alpha |-> defaultAlpha(alpha)]

rgbToHex(red, green, blue, alpha) ==
    LET rgb == validateRgb(red, green, blue, alpha)
    IN  IF rgb.error # "none" THEN rgb
        ELSE
        LET \* Math.round(alpha * 255); the product of a 2-decimal alpha and 255
            \* is exact in double precision wherever it is a half
            alphaByte == IF isNaN(rgb.alpha) THEN NaN ELSE MathRound(rgb.alpha * 255)
            \* NaN.toString(16) is "NaN"
            alphaHex == IF isNaN(alphaByte) THEN "NaN" ELSE ToHex2(alphaByte \div 1000)
            colors == toUpperCase(ToHex2(rgb.red \div 1000) \o ToHex2(rgb.green \div 1000)
                                  \o ToHex2(rgb.blue \div 1000) \o alphaHex)
        IN  [error |-> "none", hex |-> "#" \o colors]

Max3(a, b, c) == IF a >= b /\ a >= c THEN a ELSE IF b >= c THEN b ELSE c
Min3(a, b, c) == IF a <= b /\ a <= c THEN a ELSE IF b <= c THEN b ELSE c

\* rgbToHsl without `hue < 0 ? hue + 360 : hue`.
rgbToHslWithoutWrap(red, green, blue, alpha) ==
    Let(validateRgb(red, green, blue, alpha), LAMBDA rgb :
        IF rgb.error # "none" THEN rgb
        ELSE
        LET r == rgb.red \div 1000
            g == rgb.green \div 1000
            b == rgb.blue \div 1000
            max == Max3(r, g, b)
            min == Min3(r, g, b)
            delta == max - min
            \* average = (max + min) / 2; lightness = round(average / 255, 2),
            \* in hundredths (never an exact half)
            lightness == (200 * (max + min) + 510) \div 1020
            \* 1 - |lightness * 2 - 1|, in hundredths
            spread == 100 - Abs(2 * lightness - 100)
            \* round(delta / spread / 255, 2) in hundredths; a zero divisor
            \* gives Infinity
            satScaled == 20000 * delta + 255 * spread
            saturation ==
                IF delta = 0 THEN 0
                ELSE IF spread = 0 THEN Infinity
                ELSE IF satScaled % (510 * spread) = 0
                        /\ <<delta, max + min>> \in SaturationHalfLost
                THEN 10 * ((satScaled \div (510 * spread)) - 1)
                ELSE 10 * (satScaled \div (510 * spread))
            \* the sector offset and the numerator of the hue fraction
            offset == IF max = r THEN 0 ELSE IF max = g THEN 2 ELSE 4
            numerator == IF max = r THEN g - b ELSE IF max = g THEN b - r ELSE r - g
            \* Math.round(hue * 60), hue = numerator / delta + offset
            hueScaled == 120 * (numerator + offset * delta) + delta
            rounded ==
                IF delta = 0 THEN 0
                ELSE IF hueScaled % (2 * delta) = 0
                        /\ <<offset, numerator, delta>> \in HueHalfLost
                THEN (hueScaled \div (2 * delta)) - 1
                ELSE hueScaled \div (2 * delta)
            hue == rounded
        IN  [error |-> "none",
             hue |-> N(hue), saturation |-> saturation,
             lightness |-> 10 * lightness, alpha |-> rgb.alpha])

rgbToHsl(red, green, blue, alpha) ==
    Let(validateRgb(red, green, blue, alpha), LAMBDA rgb :
        IF rgb.error # "none" THEN rgb
        ELSE
        LET r == rgb.red \div 1000
            g == rgb.green \div 1000
            b == rgb.blue \div 1000
            max == Max3(r, g, b)
            min == Min3(r, g, b)
            delta == max - min
            \* average = (max + min) / 2; lightness = round(average / 255, 2),
            \* in hundredths (never an exact half)
            lightness == (200 * (max + min) + 510) \div 1020
            \* 1 - |lightness * 2 - 1|, in hundredths
            spread == 100 - Abs(2 * lightness - 100)
            \* round(delta / spread / 255, 2) in hundredths; a zero divisor
            \* gives Infinity
            satScaled == 20000 * delta + 255 * spread
            saturation ==
                IF delta = 0 THEN 0
                ELSE IF spread = 0 THEN Infinity
                ELSE IF satScaled % (510 * spread) = 0
                        /\ <<delta, max + min>> \in SaturationHalfLost
                THEN 10 * ((satScaled \div (510 * spread)) - 1)
                ELSE 10 * (satScaled \div (510 * spread))
            \* the sector offset and the numerator of the hue fraction
            offset == IF max = r THEN 0 ELSE IF max = g THEN 2 ELSE 4
            numerator == IF max = r THEN g - b ELSE IF max = g THEN b - r ELSE r - g
            \* Math.round(hue * 60), hue = numerator / delta + offset
            hueScaled == 120 * (numerator + offset * delta) + delta
            rounded ==
                IF delta = 0 THEN 0
                ELSE IF hueScaled % (2 * delta) = 0
                        /\ <<offset, numerator, delta>> \in HueHalfLost
                THEN (hueScaled \div (2 * delta)) - 1
                ELSE hueScaled \div (2 * delta)
            hue == IF rounded < 0 THEN rounded + 360 ELSE rounded
        IN  [error |-> "none",
             hue |-> N(hue), saturation |-> saturation,
             lightness |-> 10 * lightness, alpha |-> rgb.alpha])

\* ----------------------------------------------------------- Hex codec

\* HEX_REGEX = /^#([A-Fa-f0-9]{3}|[A-Fa-f0-9]{6}|[A-Fa-f0-9]{8})$/
\* HEX_REGEX without the closing $: a match of the first three digits is enough.
HEX_REGEX_Unanchored(string) ==
    /\ Len(string) >= 4
    /\ Ch(string, 1) = "#"
    /\ \A i \in 2..4 : IsHexDigit(Ch(string, i))

\* HEX_REGEX with a fourth alternative, [A-Fa-f0-9]{4}.
HEX_REGEX_WithShorthandAlpha(string) ==
    /\ Len(string) \in {4, 5, 7, 9}
    /\ Ch(string, 1) = "#"
    /\ \A i \in 2..Len(string) : IsHexDigit(Ch(string, i))

HEX_REGEX(string) ==
    /\ Len(string) \in {4, 7, 9}
    /\ Ch(string, 1) = "#"
    /\ \A i \in 2..Len(string) : IsHexDigit(Ch(string, i))

\* The value of each hex digit, of either case
HexValues ==
    [c \in HexChars |->
        IF IndexOf(HexDigitsUpper, c) # 0 THEN IndexOf(HexDigitsUpper, c) - 1
        ELSE IndexOf(HexDigitsLower, c) - 1]

HexValue(c) == HexValues[c]

\* parseInt(string, 16) of two hex digits, as a model number
stringToDecimals(string) == N(16 * HexValue(Ch(string, 1)) + HexValue(Ch(string, 2)))

\* parseHex without the upper-casing of a string that is already eight
\* digits long.
parseHexKeepingCase(string) ==
    IF ~HEX_REGEX(string) THEN Throw("InvalidHexCode")
    ELSE IF Len(string) = 4
    THEN LET red == Ch(string, 2) \o Ch(string, 2)
             green == Ch(string, 3) \o Ch(string, 3)
             blue == Ch(string, 4) \o Ch(string, 4)
             alpha == IF Ch(string, 5) # "" THEN Ch(string, 5) \o Ch(string, 5) ELSE "FF"
         IN  [error |-> "none", hex |-> toUpperCase("#" \o red \o green \o blue \o alpha)]
    ELSE IF Len(string) = 7
    THEN [error |-> "none", hex |-> toUpperCase(string \o "FF")]
    ELSE [error |-> "none", hex |-> string]

parseHex(string) ==
    IF ~HEX_REGEX(string) THEN Throw("InvalidHexCode")
    ELSE IF Len(string) = 4
    THEN LET red == Ch(string, 2) \o Ch(string, 2)
             green == Ch(string, 3) \o Ch(string, 3)
             blue == Ch(string, 4) \o Ch(string, 4)
             alpha == IF Ch(string, 5) # "" THEN Ch(string, 5) \o Ch(string, 5) ELSE "FF"
         IN  [error |-> "none", hex |-> toUpperCase("#" \o red \o green \o blue \o alpha)]
    ELSE IF Len(string) = 7
    THEN [error |-> "none", hex |-> toUpperCase(string \o "FF")]
    ELSE [error |-> "none", hex |-> toUpperCase(string)]

\* hexToRgb with the alpha cut to two decimals instead of rounded.
hexToRgbTruncating(string) ==
    Let(parseHex(string), LAMBDA parsed :
        IF parsed.error # "none" THEN parsed
        ELSE Let(parsed.hex, LAMBDA hex :
                 [error |-> "none",
                  red |-> stringToDecimals(SubSeq(hex, 2, 3)),
                  green |-> stringToDecimals(SubSeq(hex, 4, 5)),
                  blue |-> stringToDecimals(SubSeq(hex, 6, 7)),
                  alpha |-> 10 * ((100 * (stringToDecimals(SubSeq(hex, 8, 9)) \div 1000))
                                  \div 255)]))

hexToRgb(string) ==
    Let(parseHex(string), LAMBDA parsed :
        IF parsed.error # "none" THEN parsed
        ELSE Let(parsed.hex, LAMBDA hex :
                 [error |-> "none",
                  red |-> stringToDecimals(SubSeq(hex, 2, 3)),
                  green |-> stringToDecimals(SubSeq(hex, 4, 5)),
                  blue |-> stringToDecimals(SubSeq(hex, 6, 7)),
                  \* round(byte / 255, 2), never an exact half
                  alpha |-> 10 * ((200 * (stringToDecimals(SubSeq(hex, 8, 9)) \div 1000) + 255)
                                  \div 510)]))

\* ------------------------------------------- parsing rgb() and hsl() strings

Whitespace == {" ", "\t"}

RECURSIVE SkipSpaces(_, _)
\* \s* from position i: the position of the first character that is no space
SkipSpaces(s, i) == IF Ch(s, i) \in Whitespace THEN SkipSpaces(s, i + 1) ELSE i

RECURSIVE DigitRun(_, _, _)
\* \d{0,limit} from position i, greedy: how many digits it takes
DigitRun(s, i, limit) ==
    IF limit > 0 /\ IsDigit(Ch(s, i)) THEN 1 + DigitRun(s, i + 1, limit - 1) ELSE 0

RECURSIVE DigitsValue(_, _, _)
\* the integer written by the n digits of s from position i
DigitsValue(s, i, n) ==
    IF n = 0 THEN 0
    ELSE 10 * DigitsValue(s, i, n - 1) + (IndexOf(DecimalDigits, Ch(s, i + n - 1)) - 1)

\* Number("d") or Number("d.ddd"): one leading digit at i and nf fraction digits
\* (the model keeps three decimals)
AlphaValue(s, i, nf) ==
    LET kept == IF nf > 3 THEN 3 ELSE nf
    IN  N(DigitsValue(s, i, 1)) + DigitsValue(s, i + 2, kept) * (10 ^ (3 - kept))

\* The match of
\*   /^NAMEa?\(\s*(\d{1,3})\s*,\s*(\d{1,3})P\s*,\s*(\d{1,3})P(?:,\s*([0-1](?:\.\d+)?))?\s*\)$/
\* where P is "%" when percent and empty otherwise: RGB_HEX is ("rgb", FALSE)
\* and HSL_REGEX is ("hsl", TRUE).  The groups are model numbers; a group that
\* did not take part is undefined.
MatchFunctional(s, name, percent) ==
    LET afterName == Len(name) + 1
        paren == IF Ch(s, afterName) = "a" THEN afterName + 1 ELSE afterName
        first == SkipSpaces(s, paren + 1)
        n1 == DigitRun(s, first, 3)
        comma1 == SkipSpaces(s, first + n1)
        second == SkipSpaces(s, comma1 + 1)
        n2 == DigitRun(s, second, 3)
        percent2 == second + n2
        comma2 == SkipSpaces(s, IF percent THEN percent2 + 1 ELSE percent2)
        third == SkipSpaces(s, comma2 + 1)
        n3 == DigitRun(s, third, 3)
        percent3 == third + n3
        comma3 == IF percent THEN percent3 + 1 ELSE percent3
        hasAlpha == Ch(s, comma3) = ","
        lead == SkipSpaces(s, comma3 + 1)
        nf == IF Ch(s, lead + 1) = "." THEN DigitRun(s, lead + 2, Len(s)) ELSE 0
        afterAlpha == IF nf > 0 THEN lead + 2 + nf ELSE lead + 1
        close == SkipSpaces(s, IF hasAlpha THEN afterAlpha ELSE comma3)
        matched ==
            /\ Len(s) >= Len(name) /\ SubSeq(s, 1, Len(name)) = name
            /\ Ch(s, paren) = "("
            /\ n1 >= 1 /\ Ch(s, comma1) = ","
            /\ n2 >= 1 /\ (percent => Ch(s, percent2) = "%") /\ Ch(s, comma2) = ","
            /\ n3 >= 1 /\ (percent => Ch(s, percent3) = "%")
            /\ (hasAlpha => Ch(s, lead) \in {"0", "1"})
            /\ Ch(s, close) = ")" /\ close = Len(s)
    IN  IF ~matched THEN [matched |-> FALSE]
        ELSE [matched |-> TRUE,
              groups |-> << N(DigitsValue(s, first, n1)),
                            N(DigitsValue(s, second, n2)),
                            N(DigitsValue(s, third, n3)),
                            IF hasAlpha THEN AlphaValue(s, lead, nf) ELSE undefined >>]

parseRgb(color) ==
    Let(MatchFunctional(color, "rgb", FALSE), LAMBDA extractedColors :
        IF ~extractedColors.matched THEN Throw("InvalidRGBCode")
        ELSE Let(extractedColors.groups, LAMBDA colors :
                 validateRgb(colors[1], colors[2], colors[3], colors[4])))

\* parseHsl without the division of the two percentages by 100.
parseHslPercentages(color) ==
    Let(MatchFunctional(color, "hsl", TRUE), LAMBDA extractedColors :
        IF ~extractedColors.matched THEN Throw("InvalidHSLCode")
        ELSE Let(extractedColors.groups, LAMBDA colors :
                 validateHsl(colors[1], colors[2], colors[3], colors[4])))

parseHsl(color) ==
    Let(MatchFunctional(color, "hsl", TRUE), LAMBDA extractedColors :
        IF ~extractedColors.matched THEN Throw("InvalidHSLCode")
        ELSE Let(extractedColors.groups, LAMBDA colors :
                 \* saturation / 100 and lightness / 100
                 validateHsl(colors[1], colors[2] \div 100, colors[3] \div 100, colors[4])))

\* ----------------------------------------------------------- class Color

getAttributesFromHex(color) ==
    Let(parseHex(color), LAMBDA parsed :
        IF parsed.error # "none" THEN parsed
        ELSE
        Let(hexToRgb(parsed.hex), LAMBDA rgb :
            IF rgb.error # "none" THEN rgb
            ELSE
            Let(rgbToHsl(rgb.red, rgb.green, rgb.blue, undefined), LAMBDA hsl :
                IF hsl.error # "none" THEN hsl
                ELSE [error |-> "none", hexCode |-> parsed.hex,
                      red |-> rgb.red, green |-> rgb.green, blue |-> rgb.blue,
                      hue |-> hsl.hue, saturation |-> hsl.saturation,
                      lightness |-> hsl.lightness, alpha |-> rgb.alpha])))

\* getAttributesFromRgb with red and blue exchanged in the call of rgbToHsl.
getAttributesFromRgbSwapped(color) ==
    Let(rgbToHsl(color.blue, color.green, color.red, color.alpha), LAMBDA hsl :
        IF hsl.error # "none" THEN hsl
        ELSE
        Let(rgbToHex(color.red, color.green, color.blue, color.alpha), LAMBDA hexCode :
            IF hexCode.error # "none" THEN hexCode
            ELSE [error |-> "none", hexCode |-> hexCode.hex,
                  red |-> color.red, green |-> color.green, blue |-> color.blue,
                  hue |-> hsl.hue, saturation |-> hsl.saturation,
                  lightness |-> hsl.lightness, alpha |-> color.alpha]))

getAttributesFromRgb(color) ==
    Let(rgbToHsl(color.red, color.green, color.blue, color.alpha), LAMBDA hsl :
        IF hsl.error # "none" THEN hsl
        ELSE
        Let(rgbToHex(color.red, color.green, color.blue, color.alpha), LAMBDA hexCode :
            IF hexCode.error # "none" THEN hexCode
            ELSE [error |-> "none", hexCode |-> hexCode.hex,
                  red |-> color.red, green |-> color.green, blue |-> color.blue,
                  hue |-> hsl.hue, saturation |-> hsl.saturation,
                  lightness |-> hsl.lightness, alpha |-> color.alpha]))

\* getAttributesFromHsl with the alpha left out of the call of rgbToHex.
getAttributesFromHslOpaqueHex(color) ==
    Let(hslToRgb(color.hue, color.saturation, color.lightness, undefined), LAMBDA rgb :
        IF rgb.error # "none" THEN rgb
        ELSE
        Let(rgbToHex(rgb.red, rgb.green, rgb.blue, undefined), LAMBDA hexCode :
            IF hexCode.error # "none" THEN hexCode
            ELSE [error |-> "none", hexCode |-> hexCode.hex,
                  red |-> rgb.red, green |-> rgb.green, blue |-> rgb.blue,
                  hue |-> color.hue, saturation |-> color.saturation,
                  lightness |-> color.lightness, alpha |-> color.alpha]))

getAttributesFromHsl(color) ==
    Let(hslToRgb(color.hue, color.saturation, color.lightness, undefined), LAMBDA rgb :
        IF rgb.error # "none" THEN rgb
        ELSE
        Let(rgbToHex(rgb.red, rgb.green, rgb.blue, color.alpha), LAMBDA hexCode :
            IF hexCode.error # "none" THEN hexCode
            ELSE [error |-> "none", hexCode |-> hexCode.hex,
                  red |-> rgb.red, green |-> rgb.green, blue |-> rgb.blue,
                  hue |-> color.hue, saturation |-> color.saturation,
                  lightness |-> color.lightness, alpha |-> color.alpha]))

\* getAttributesFromString looking for "hsl" before "rgb".
getAttributesFromStringHslFirst(color) ==
    IF Ch(color, 1) = "#" THEN getAttributesFromHex(color)
    ELSE IF Includes(color, "hsl")
    THEN Let(parseHsl(color), LAMBDA hsl :
             IF hsl.error # "none" THEN hsl ELSE getAttributesFromHsl(hsl))
    ELSE IF Includes(color, "rgb")
    THEN Let(parseRgb(color), LAMBDA rgb :
             IF rgb.error # "none" THEN rgb ELSE getAttributesFromRgb(rgb))
    ELSE Throw("InvalidColor")

getAttributesFromString(color) ==
    IF Ch(color, 1) = "#" THEN getAttributesFromHex(color)
    ELSE IF Includes(color, "rgb")
    THEN Let(parseRgb(color), LAMBDA rgb :
             IF rgb.error # "none" THEN rgb ELSE getAttributesFromRgb(rgb))
    ELSE IF Includes(color, "hsl")
    THEN Let(parseHsl(color), LAMBDA hsl :
             IF hsl.error # "none" THEN hsl ELSE getAttributesFromHsl(hsl))
    ELSE Throw("InvalidColor")

\* this.#hexCode = attributes.hexCode; ... this.#alpha = attributes.alpha
setAttributes(this, attributes) ==
    [this EXCEPT !.hexCode = attributes.hexCode,
                 !.red = attributes.red, !.green = attributes.green,
                 !.blue = attributes.blue, !.hue = attributes.hue,
                 !.saturation = attributes.saturation,
                 !.lightness = attributes.lightness, !.alpha = attributes.alpha]

\* The outcome of a call that returns an instance or assigns to one: the error
\* thrown ("none" if none) and the instance afterwards (none after a
\* constructor that threw).
Thrown(kind, this) == [error |-> kind, this |-> this]
Returned(this) == [error |-> "none", this |-> this]

\* new Color(color): the eight private fields of the new instance
constructor(color) ==
    Let(getAttributesFromString(color), LAMBDA attributes :
        IF attributes.error # "none" THEN Throw(attributes.error)
        ELSE Returned([hexCode |-> attributes.hexCode,
                       red |-> attributes.red, green |-> attributes.green,
                       blue |-> attributes.blue, hue |-> attributes.hue,
                       saturation |-> attributes.saturation,
                       lightness |-> attributes.lightness, alpha |-> attributes.alpha]))

\* The preset getters: static get white() { return new Color("#FFF") } ...
PresetHex(name) ==
    CASE name = "white" -> "#FFF"
      [] name = "black" -> "#000"
      [] name = "transparent" -> "#00000000"
      [] name = "red" -> "#F00"
      [] name = "orange" -> "#FF8000"
      [] name = "yellow" -> "#FF0"
      [] name = "green" -> "#0F0"
      [] name = "blue" -> "#00F"
      [] name = "purple" -> "#F0F"

Preset(name) == constructor(PresetHex(name))

\* Color.white
Color_white == Preset("white").this

\* Color.rgb(red, green, blue, alpha?)
Color_rgb(red, green, blue, alpha) ==
    Let(validateRgb(red, green, blue, alpha), LAMBDA rgb :
        IF rgb.error # "none" THEN Throw(rgb.error)
        ELSE
        Let(getAttributesFromRgb(rgb), LAMBDA attributes :
            IF attributes.error # "none" THEN Throw(attributes.error)
            ELSE Returned(setAttributes(Color_white, attributes))))

\* Color.hsl(hue, saturation, lightness, alpha?)
Color_hsl(hue, saturation, lightness, alpha) ==
    Let(validateHsl(hue, saturation, lightness, alpha), LAMBDA hsl :
        IF hsl.error # "none" THEN Throw(hsl.error)
        ELSE
        Let(getAttributesFromHsl(hsl), LAMBDA attributes :
            IF attributes.error # "none" THEN Throw(attributes.error)
            ELSE Returned(setAttributes(Color_white, attributes))))

\* `new Color(...)` among the objects that exist already: the object is a new
\* one, and the reference returned is to it.
NewInstance(heap, this) == [error |-> "none", heap |-> Append(heap, this), ref |-> Len(heap) + 1]

\* A call that threw before it created anything.
NoInstance(kind, heap) == [error |-> kind, heap |-> heap, ref |-> 0]

\* Presets that hand out an object created earlier for as long as it still has
\* the preset's colour.
Color_getShared(heap, name) ==
    IF \E i \in 1..Len(heap) : heap[i] = Preset(name).this
    THEN [error |-> "none", heap |-> heap,
          ref |-> CHOOSE i \in 1..Len(heap) : heap[i] = Preset(name).this]
    ELSE NewInstance(heap, Preset(name).this)

\* static get white() { return new Color("#FFF"); } and the other presets
Color_get(heap, name) == NewInstance(heap, Preset(name).this)

\* Color.rgb among the objects that exist: const color = Color.white;
\* color.setAttributes(attributes); return color
Color_rgb_instance(heap, red, green, blue, alpha) ==
    Let(Color_rgb(red, green, blue, alpha), LAMBDA result :
        IF result.error # "none" THEN NoInstance(result.error, heap)
        ELSE Let(Color_get(heap, "white"), LAMBDA white :
                 [error |-> "none",
                  heap |-> [white.heap EXCEPT ![white.ref] = setAttributes(@, result.this)],
                  ref |-> white.ref]))

\* Color.hsl among the objects that exist, likewise
Color_hsl_instance(heap, hue, saturation, lightness, alpha) ==
    Let(Color_hsl(hue, saturation, lightness, alpha), LAMBDA result :
        IF result.error # "none" THEN NoInstance(result.error, heap)
        ELSE Let(Color_get(heap, "white"), LAMBDA white :
                 [error |-> "none",
                  heap |-> [white.heap EXCEPT ![white.ref] = setAttributes(@, result.this)],
                  ref |-> white.ref]))

\* The setters of red, green, blue and alpha, had they validated the stored
\* hue, saturation and lightness as well.
SetViaRgbValidatingHsl(this, red, green, blue, alpha) ==
    Let(validateHsl(this.hue, this.saturation, this.lightness, alpha), LAMBDA hsl :
        IF hsl.error # "none" THEN Thrown(hsl.error, this)
        ELSE
        Let(validateRgb(red, green, blue, alpha), LAMBDA rgb :
            IF rgb.error # "none" THEN Thrown(rgb.error, this)
            ELSE
            Let(getAttributesFromRgb(rgb), LAMBDA attributes :
                IF attributes.error # "none" THEN Thrown(attributes.error, this)
                ELSE Returned(setAttributes(this, attributes)))))

\* The setters of red, green, blue and alpha: validate the RGB tuple with the
\* new value in place, derive every attribute from it, then assign them all.
SetViaRgb(this, red, green, blue, alpha) ==
    Let(validateRgb(red, green, blue, alpha), LAMBDA rgb :
        IF rgb.error # "none" THEN Thrown(rgb.error, this)
        ELSE
        Let(getAttributesFromRgb(rgb), LAMBDA attributes :
            IF attributes.error # "none" THEN Thrown(attributes.error, this)
            ELSE Returned(setAttributes(this, attributes))))

\* The setters of hue, saturation and lightness, had they stored the new
\* value before validating the tuple.
SetViaHslAssigningFirst(this, hue, saturation, lightness, alpha) ==
    Let(validateHsl(hue, saturation, lightness, alpha), LAMBDA hsl :
        IF hsl.error # "none"
        THEN Thrown(hsl.error, [this EXCEPT !.hue = hue, !.saturation = saturation,
                                            !.lightness = lightness])
        ELSE
        Let(getAttributesFromHsl(hsl), LAMBDA attributes :
            IF attributes.error # "none" THEN Thrown(attributes.error, this)
            ELSE Returned(setAttributes(this, attributes))))

\* The setters of hue, saturation and lightness, likewise on the HSL tuple.
SetViaHsl(this, hue, saturation, lightness, alpha) ==
    Let(validateHsl(hue, saturation, lightness, alpha), LAMBDA hsl :
        IF hsl.error # "none" THEN Thrown(hsl.error, this)
        ELSE
        Let(getAttributesFromHsl(hsl), LAMBDA attributes :
            IF attributes.error # "none" THEN Thrown(attributes.error, this)
            ELSE Returned(setAttributes(this, attributes))))

set_red(this, red) == SetViaRgb(this, red, this.green, this.blue, this.alpha)
set_green(this, green) == SetViaRgb(this, this.red, green, this.blue, this.alpha)
\* The blue setter, had it passed the stored red in the place of green.
set_blue_copying_red(this, blue) == SetViaRgb(this, this.red, this.red, blue, this.alpha)
set_blue(this, blue) == SetViaRgb(this, this.red, this.green, blue, this.alpha)
set_hue(this, hue) == SetViaHsl(this, hue, this.saturation, this.lightness, this.alpha)
set_saturation(this, saturation) ==
    SetViaHsl(this, this.hue, saturation, this.lightness, this.alpha)
\* The lightness setter, had it left the stored alpha out of the tuple.
set_lightness_opaque(this, lightness) ==
    SetViaHsl(this, this.hue, this.saturation, lightness, undefined)
set_lightness(this, lightness) ==
    SetViaHsl(this, this.hue, this.saturation, lightness, this.alpha)
set_alpha(this, alpha) == SetViaRgb(this, this.red, this.green, this.blue, alpha)

\* this[field] = value
Assign(this, field, value) ==
    CASE field = "red" -> set_red(this, value)
      [] field = "green" -> set_green(this, value)
      [] field = "blue" -> set_blue(this, value)
      [] field = "hue" -> set_hue(this, value)
      [] field = "saturation" -> set_saturation(this, value)
      [] field = "lightness" -> set_lightness(this, value)
      [] field = "alpha" -> set_alpha(this, value)

\* ------------------------------------------------ the string getters

Digit(d) == Ch(DecimalDigits, d + 1)

RECURSIVE NatToString(_)
\* the decimal digits of a natural number
NatToString(n) == IF n < 10 THEN Digit(n) ELSE NatToString(n \div 10) \o Digit(n % 10)

\* the digits after the decimal point of f thousandths, 0 < f < 1000, without
\* trailing zeros
FractionDigits(f) ==
    LET d1 == f \div 100
        d2 == (f \div 10) % 10
        d3 == f % 10
    IN  IF d3 # 0 THEN Digit(d1) \o Digit(d2) \o Digit(d3)
        ELSE IF d2 # 0 THEN Digit(d1) \o Digit(d2)
        ELSE Digit(d1)

RECURSIVE NumberToString(_)
\* `${x}` in a template literal: what JavaScript prints for the number x
NumberToString(x) ==
    IF x = NaN THEN "NaN"
    ELSE IF x = undefined THEN "undefined"
    ELSE IF x = Infinity THEN "Infinity"
    ELSE IF x < 0 THEN "-" \o NumberToString(-x)
    ELSE IF x % 1000 = 0 THEN NatToString(x \div 1000)
    ELSE NatToString(x \div 1000) \o "." \o FractionDigits(x % 1000)

\* The hundredths k / 100 whose product with 100 is not the integer k in
\* double arithmetic, with what JavaScript prints for the product.
InexactPercentages ==
    [k \in {7, 14, 28, 29, 55, 56, 57, 58, 109, 110, 111, 112, 113, 114, 115, 116} |->
        CASE k = 7 -> "7.000000000000001"
          [] k = 14 -> "14.000000000000002"
          [] k = 28 -> "28.000000000000004"
          [] k = 29 -> "28.999999999999996"
          [] k = 55 -> "55.00000000000001"
          [] k = 56 -> "56.00000000000001"
          [] k = 57 -> "56.99999999999999"
          [] k = 58 -> "57.99999999999999"
          [] k = 109 -> "109.00000000000001"
          [] k = 110 -> "110.00000000000001"
          [] k = 111 -> "111.00000000000001"
          [] k = 112 -> "112.00000000000001"
          [] k = 113 -> "112.99999999999999"
          [] k = 114 -> "113.99999999999999"
          [] k = 115 -> "114.99999999999999"
          [] k = 116 -> "115.99999999999999"]

\* `${x * 100}`: the product is computed in doubles before it is printed
TimesHundredToString(x) ==
    IF x \in {NaN, undefined, Infinity} THEN NumberToString(x)
    ELSE IF x >= 0 /\ x % 10 = 0 /\ (x \div 10) \in DOMAIN InexactPercentages
         THEN InexactPercentages[x \div 10]
    ELSE NumberToString(x * 100)

\* `rgba(${this.#red}, ${this.#green}, ${this.#blue}, ${this.#alpha})`
toRgb(this) ==
    "rgba(" \o NumberToString(this.red) \o ", " \o NumberToString(this.green)
            \o ", " \o NumberToString(this.blue) \o ", " \o NumberToString(this.alpha) \o ")"

\* (${this.#hue}, ${this.#saturation * 100}%, ${this.#lightness * 100}%, ${this.#alpha})
HslArguments(this) ==
    "(" \o NumberToString(this.hue) \o ", " \o TimesHundredToString(this.saturation)
        \o "%, " \o TimesHundredToString(this.lightness) \o "%, "
        \o NumberToString(this.alpha) \o ")"

\* `hlsa(${this.#hue}, ${this.#saturation * 100}%, ${this.#lightness * 100}%, ${this.#alpha})`
toHsl(this) == "hlsa" \o HslArguments(this)

\* this.#hexCode
toHex(this) == this.hexCode

\* --------------------------------------------------- the test table

\* COLOR_TESTS of the Color test file: the inputs of each colour and the
\* observable values expected of all of them ("Hex code" is toHex()).
COLOR_TESTS(name) ==
    CASE name = "white" ->
       [hexCodes |-> {"#FFF", "#fff", "#FFFFFF", "#ffffff", "#FFFFFFFF", "#ffffffff"},
        rgbCodes |-> {"rgb(255, 255, 255)", "rgba(255, 255, 255, 1)"},
        hslCodes |-> {"hsl(0, 0%, 100%)", "hsla(0, 0%, 100%, 1)"},
        rgbValues |-> <<N(255), N(255), N(255), N(1)>>,
        hslValues |-> <<0, 0, N(1), N(1)>>,
        expected |-> [hexCode |-> "#FFFFFFFF", red |-> N(255), green |-> N(255),
                      blue |-> N(255), lightness |-> N(1), alpha |-> N(1)]]
      [] name = "black" ->
       [hexCodes |-> {"#000", "#000000", "#000000FF", "#000000ff"},
        rgbCodes |-> {"rgb(0, 0, 0)", "rgba(0, 0, 0, 1)"},
        hslCodes |-> {"hsl(0, 0%, 0%)", "hsla(0, 0%, 0%, 1)"},
        rgbValues |-> <<0, 0, 0, N(1)>>,
        hslValues |-> <<0, 0, 0, N(1)>>,
        expected |-> [hexCode |-> "#000000FF", red |-> 0, green |-> 0, blue |-> 0,
                      lightness |-> 0, alpha |-> N(1)]]
      [] name = "transparent" ->
       [hexCodes |-> {"#00000000"},
        rgbCodes |-> {"rgba(0, 0, 0, 0)"},
        hslCodes |-> {"hsla(0, 0%, 0%, 0)"},
        rgbValues |-> <<0, 0, 0, 0>>,
        hslValues |-> <<0, 0, 0, 0>>,
        expected |-> [hexCode |-> "#00000000", red |-> 0, green |-> 0, blue |-> 0,
                      lightness |-> 0, alpha |-> 0]]
      [] name = "red" ->
       [hexCodes |-> {"#F00", "#f00", "#FF0000", "#ff0000", "#FF0000FF", "#ff0000ff"},
        rgbCodes |-> {"rgb(255, 0, 0)", "rgba(255, 0, 0, 1)"},
        hslCodes |-> {"hsl(0, 100%, 50%)", "hsla(0, 100%, 50%, 1)"},
        rgbValues |-> <<N(255), 0, 0, N(1)>>,
        hslValues |-> <<0, N(1), 500, N(1)>>,
        expected |-> [hexCode |-> "#FF0000FF", red |-> N(255), green |-> 0, blue |-> 0,
                      hue |-> 0, saturation |-> N(1), lightness |-> 500, alpha |-> N(1)]]
      [] name = "orange" ->
       [hexCodes |-> {"#FF8000", "#FF8000FF", "#ff8000ff"},
        rgbCodes |-> {"rgb(255, 128, 0)", "rgba(255, 128, 0, 1)"},
        hslCodes |-> {"hsl(30, 100%, 50%)", "hsla(30, 100%, 50%, 1)"},
        rgbValues |-> <<N(255), N(128), 0, N(1)>>,
        hslValues |-> <<N(30), N(1), 500, N(1)>>,
        expected |-> [hexCode |-> "#FF8000FF", red |-> N(255), green |-> N(128),
                      blue |-> 0, hue |-> N(30), saturation |-> N(1),
                      lightness |-> 500, alpha |-> N(1)]]
      [] name = "yellow" ->
       [hexCodes |-> {"#FF0", "#ff0", "#FFFF00", "#ffff00", "#FFFF00FF", "#ffff00ff"},
        rgbCodes |-> {"rgb(255, 255, 0)", "rgba(255, 255, 0, 1)"},
        hslCodes |-> {"hsl(60, 100%, 50%)", "hsla(60, 100%, 50%, 1)"},
        rgbValues |-> <<N(255), N(255), 0, N(1)>>,
        hslValues |-> <<N(60), N(1), 500, N(1)>>,
        expected |-> [hexCode |-> "#FFFF00FF", red |-> N(255), green |-> N(255),
                      blue |-> 0, hue |-> N(60), saturation |-> N(1),
                      lightness |-> 500, alpha |-> N(1)]]
      [] name = "green" ->
       [hexCodes |-> {"#0F0", "#0f0", "#00FF00", "#00ff00", "#00FF00FF", "#00ff00ff"},
        rgbCodes |-> {"rgb(0, 255, 0)", "rgba(0, 255, 0, 1)"},
        hslCodes |-> {"hsl(120, 100%, 50%)", "hsla(120, 100%, 50%, 1)"},
        rgbValues |-> <<0, N(255), 0, N(1)>>,
        hslValues |-> <<N(120), N(1), 500, N(1)>>,
        expected |-> [hexCode |-> "#00FF00FF", red |-> 0, green |-> N(255), blue |-> 0,
                      hue |-> N(120), saturation |-> N(1), lightness |-> 500,
                      alpha |-> N(1)]]
      [] name = "blue" ->
       [hexCodes |-> {"#00F", "#00f", "#0000FF", "#0000ff", "#0000FFFF", "#0000ffff"},
        rgbCodes |-> {"rgb(0, 0, 255)", "rgba(0, 0, 255, 1)"},
        hslCodes |-> {"hsl(240, 100%, 50%)", "hsla(240, 100%, 50%, 1)"},
        rgbValues |-> <<0, 0, N(255), N(1)>>,
        hslValues |-> <<N(240), N(1), 500, N(1)>>,
        expected |-> [hexCode |-> "#0000FFFF", red |-> 0, green |-> 0, blue |-> N(255),
                      hue |-> N(240), saturation |-> N(1), lightness |-> 500,
                      alpha |-> N(1)]]
      [] name = "purple" ->
       [hexCodes |-> {"#FF00FF", "#FF00FFFF", "#ff00ffff"},
        rgbCodes |-> {"rgb(255, 0, 255)", "rgba(255, 0, 255, 1)"},
        hslCodes |-> {"hsl(300, 100%, 50%)", "hsla(300, 100%, 50%, 1)"},
        rgbValues |-> <<N(255), 0, N(255), N(1)>>,
        hslValues |-> <<N(300), N(1), 500, N(1)>>,
        expected |-> [hexCode |-> "#FF00FFFF", red |-> N(255), green |-> 0,
                      blue |-> N(255), hue |-> N(300), saturation |-> N(1),
                      lightness |-> 500, alpha |-> N(1)]]

ColorNames ==
    {"white", "black", "transparent", "red", "orange", "yellow", "green", "blue", "purple"}

\* ------------------------------------------------------------ the inputs

\* How many operations a run applies after it started with a preset.
MaxSteps == 2

\* The strings the test files expect `new Color` to reject.
RejectedStrings ==
    {"FFFFFF", "#EEEGEE", "#FF", "#FFFFFFFFF", "#FFFF", "#FFFFF", "rbg(0, 0, 0)",
     "rgb(x, 0, 0)", "rgb(-1, 0, 0)", "rgb(256, 0, 0)", "rgb(255, 0, 0, 2)",
     "hls(0, 0, 0)", "hsl(x, 0, 0)", "hsl(-1, 0, 0)", "hsl(360, 0, 0)",
     "hsl(255, 0, 0, 2)", "hsl(360, 0%, 0%)", ""}

\* Further strings: near-black and near-white colours, alpha bytes and alpha
\* decimals, optional spaces.
OtherStrings ==
    {"#010000", "#060000", "#FFFFFE", "#42110F", "#000000A0", "#00000001",
     "rgb(1, 0, 0)", "rgb( 66 ,15 , 15)", "rgba(0, 24, 1, 0.25)", "rgba(1,2,3,1.5)",
     "rgb(1, 2, 3 , 0.5)", "hsl(0, 50%, 0%)", "hsla(359, 75%, 40%, 0.5)",
     "hsl(120, 101%, 50%)", "#rgb(0, 0, 0)", "hsl rgb(0, 0, 0)", "xrgb(0, 0, 0)",
     "rgb(0, 0, 0) hsl", "hsl(0, 0%, 0%) #", "white"}

ColorStrings ==
    UNION {COLOR_TESTS(n).hexCodes \cup COLOR_TESTS(n).rgbCodes \cup COLOR_TESTS(n).hslCodes
           : n \in ColorNames}
    \cup RejectedStrings \cup OtherStrings

\* The argument lists of Color.rgb: the table's, the boundaries of each range,
\* an omitted alpha, a NaN.
RgbCalls ==
    {COLOR_TESTS(n).rgbValues : n \in ColorNames}
    \cup {<<N(255), 0, 0, undefined>>, <<N(256), 0, 0, undefined>>, <<N(-1), 0, 0, undefined>>,
          <<0, N(255), N(255), N(1)>>, <<0, N(256), 0, N(1)>>, <<0, 0, N(-1), 500>>,
          <<0, 0, 0, N(2)>>, <<0, 0, 0, 1010>>, <<N(255), N(255), N(255), 500>>,
          <<N(6), 0, 0, undefined>>, <<N(1), 0, 0, 0>>, <<254500, 400, N(128), 4>>,
          <<255400, 0, 0, undefined>>, <<NaN, 0, 0, undefined>>, <<0, 0, 0, NaN>>}

\* The argument lists of Color.hsl, likewise.
HslCalls ==
    {COLOR_TESTS(n).hslValues : n \in ColorNames}
    \cup {<<N(359), N(1), 500, undefined>>, <<N(360), 0, 0, undefined>>,
          <<N(-1), 0, 0, undefined>>, <<0, 1100, 0, undefined>>, <<0, 0, 1100, undefined>>,
          <<0, 0, 0, 1100>>, <<0, 0, 0, 1010>>, <<N(359), 0, 0, N(1)>>,
          <<359500, 500, 500, undefined>>, <<N(30), 750, 400, 500>>,
          <<0, 500, 0, undefined>>, <<NaN, 0, 0, undefined>>, <<0, 0, 0, NaN>>}

\* The values assigned to red, green and blue.
ChannelInputs == {NaN, N(-1), 0, N(6), N(128), 254500, N(255), N(256)}
\* The values assigned to hue.
HueInputs == {NaN, N(-1), 0, N(120), N(359), 359500, N(360)}
\* The values assigned to saturation and lightness.
FractionInputs == {NaN, -10, 0, 500, N(1), 1100}
\* The values assigned to alpha.
AlphaInputs == {NaN, -10, 0, 4, 500, N(1), 1010}

\* The fields that have a setter: all but hexCode.
Fields == {Attributes[i] : i \in 2..Len(Attributes)}

InputsOf(field) ==
    CASE field \in {"red", "green", "blue"} -> ChannelInputs
      [] field = "hue" -> HueInputs
      [] field \in {"saturation", "lightness"} -> FractionInputs
      [] field = "alpha" -> AlphaInputs

\* ------------------------------------------------------------- the state

VARIABLES
    color,      \* the private fields of the Color instance the program holds
    last,       \* the last operation: its name, its arguments, the error it threw
    steps,      \* how many operations followed the first
    string,     \* the string handed to a codec
    pc,         \* where the caller of the codec stands
    parsed,     \* what parseHex, parseRgb or parseHsl returned or threw for it
    decoded,    \* what hexToRgb returned
    encoded,    \* what rgbToHex returned
    instances,  \* the Color objects created so far, in the order of creation
    ref,        \* which of them the last call returned (0: none)
    number,     \* the number handed to round
    decimals,   \* the decimals handed to round
    rounded,    \* what round returned
    arguments,  \* the numbers handed to a conversion or a validator
    returned    \* what it returned or threw

colorVars == <<color, last, steps>>
hexVars == <<string, pc, parsed, decoded, encoded>>
heapVars == <<instances, ref>>
roundVars == <<number, decimals, rounded>>
callVars == <<arguments, returned>>
vars == <<color, last, steps, string, pc, parsed, decoded, encoded, instances, ref,
          number, decimals, rounded, arguments, returned>>

Call(op, args, error) == [error |-> error, op |-> op, args |-> args]

\* A result that has not been computed yet.
Pending == Throw("pending")

\* ------------------------------------------------- the Color state machine

\* The program starts with a preset; it does not call the Hex codec itself.
Init ==
    /\ \E name \in ColorNames :
         /\ color = Preset(name).this
         /\ last = Call("preset", <<name>>, "none")
    /\ steps = 0
    /\ string = "" /\ pc = "idle"
    /\ parsed = Pending /\ decoded = Pending /\ encoded = Pending
    /\ instances = <<>> /\ ref = 0
    /\ arguments = <<>> /\ returned = Pending
    /\ number = 0 /\ decimals = 0 /\ rounded = 0

\* A run is a construction followed by assignments.  The operations below
\* return a new instance, which the program keeps in place of the preset it
\* started with; if the operation threw, the program keeps the preset.  A
\* construction discards the instance the program had, so a run that
\* constructs later continues as one that constructed first.

\* color = new Color(string)
New ==
    /\ steps = 0
    /\ \E input \in ColorStrings :
         \E result \in {constructor(input)} :
             /\ color' = IF result.error = "none" THEN result.this ELSE color
             /\ last' = Call("new", <<input>>, result.error)
             /\ steps' = steps + 1
    /\ UNCHANGED <<hexVars, heapVars, roundVars, callVars>>

\* color = Color.white, Color.black, ...
GetPreset ==
    /\ steps = 0
    /\ \E name \in ColorNames :
         \E result \in {Preset(name)} :
             /\ color' = IF result.error = "none" THEN result.this ELSE color
             /\ last' = Call("preset", <<name>>, result.error)
             /\ steps' = steps + 1
    /\ UNCHANGED <<hexVars, heapVars, roundVars, callVars>>

\* color = Color.rgb(red, green, blue, alpha)
FromRgb ==
    /\ steps = 0
    /\ \E a \in RgbCalls :
         \E result \in {Color_rgb(a[1], a[2], a[3], a[4])} :
             /\ color' = IF result.error = "none" THEN result.this ELSE color
             /\ last' = Call("rgb", a, result.error)
             /\ steps' = steps + 1
    /\ UNCHANGED <<hexVars, heapVars, roundVars, callVars>>

\* color = Color.hsl(hue, saturation, lightness, alpha)
FromHsl ==
    /\ steps = 0
    /\ \E a \in HslCalls :
         \E result \in {Color_hsl(a[1], a[2], a[3], a[4])} :
             /\ color' = IF result.error = "none" THEN result.this ELSE color
             /\ last' = Call("hsl", a, result.error)
             /\ steps' = steps + 1
    /\ UNCHANGED <<hexVars, heapVars, roundVars, callVars>>

\* color.field = value
Set ==
    /\ steps < MaxSteps
    /\ \E field \in Fields : \E value \in InputsOf(field) :
         \E result \in {Assign(color, field, value)} :
             /\ color' = result.this
             /\ last' = Call("set", <<field, value>>, result.error)
             /\ steps' = steps + 1
    /\ UNCHANGED <<hexVars, heapVars, roundVars, callVars>>

Next == New \/ GetPreset \/ FromRgb \/ FromHsl \/ Set

Spec == Init /\ [][Next]_vars

\* --------------------------------------------------- the Hex codec alone

\* n as two hex digits taken from the sixteen given
Hex2(n, digits) == Ch(digits, (n \div 16) + 1) \o Ch(digits, (n % 16) + 1)

\* Strings with eight hex digits: three colours with every alpha byte, in
\* upper case and in lower case.
EightDigitStrings ==
    {"#" \o rgb \o Hex2(byte, HexDigitsUpper) : rgb \in {"000000", "FF8000"}, byte \in 0..255}
    \cup {"#" \o rgb \o Hex2(byte, HexDigitsLower) : rgb \in {"a1b2c3"}, byte \in 0..255}

\* Strings with three and with six hex digits, of both cases.
ThreeDigitStrings == {"#" \o r \o g \o b : r, g, b \in {"0", "9", "a", "F"}}
SixDigitStrings == {"#" \o r \o g \o b : r, g, b \in {"00", "fF", "A1"}}

\* Strings HEX_REGEX does not match.
NoHexStrings ==
    {"", "#", "FFFFFF", "#FF", "#FFFF", "#FFFFF", "#FFFFFFF", "#FFFFFFFFF", "#EEEGEE",
     "#12345G78", "fff", " #FFF", "#FFF ", "#abcd", "#F00A", "#0008", "#GGG", "#FF00FG",
     "FFF", "FFFFFFFF", "#FF 000"}

\* The strings the parseHex tests expect a result for.
TestedHexStrings == {"#FFFFFFFF", "#fefefefe", "#FFFFFF", "#FFF"}

HexStrings ==
    EightDigitStrings \cup ThreeDigitStrings \cup SixDigitStrings \cup TestedHexStrings
    \cup NoHexStrings

\* A caller holds a string and is about to parse it.
HexInit ==
    /\ string \in HexStrings
    /\ pc = "parse"
    /\ parsed = Pending /\ decoded = Pending /\ encoded = Pending
    /\ color = Color_white
    /\ last = Call("preset", <<"white">>, "none")
    /\ steps = 0
    /\ instances = <<>> /\ ref = 0
    /\ arguments = <<>> /\ returned = Pending
    /\ number = 0 /\ decimals = 0 /\ rounded = 0

\* parsed = parseHex(string); the caller goes on to hexToRgb whether or not
\* parseHex threw
ParseHex ==
    /\ pc = "parse"
    /\ parsed' = parseHex(string)
    /\ pc' = "decode"
    /\ UNCHANGED <<string, decoded, encoded>>
    /\ UNCHANGED <<colorVars, heapVars, roundVars, callVars>>

\* decoded = hexToRgb(string)
HexToRgb ==
    /\ pc = "decode"
    /\ decoded' = hexToRgb(string)
    /\ pc' = IF hexToRgb(string).error = "none" THEN "encode" ELSE "thrown"
    /\ UNCHANGED <<string, parsed, encoded>>
    /\ UNCHANGED <<colorVars, heapVars, roundVars, callVars>>

\* encoded = rgbToHex(decoded.red, decoded.green, decoded.blue, decoded.alpha)
RgbToHex ==
    /\ pc = "encode"
    /\ encoded' = rgbToHex(decoded.red, decoded.green, decoded.blue, decoded.alpha)
    /\ pc' = "done"
    /\ UNCHANGED <<string, parsed, decoded>>
    /\ UNCHANGED <<colorVars, heapVars, roundVars, callVars>>

\* color = new Color(string), once the codec has been through the string
NewFromHex ==
    /\ pc \in {"done", "thrown"}
    /\ steps = 0
    /\ \E result \in {constructor(string)} :
         /\ color' = IF result.error = "none" THEN result.this ELSE color
         /\ last' = Call("new", <<string>>, result.error)
         /\ steps' = steps + 1
    /\ UNCHANGED <<hexVars, heapVars, roundVars, callVars>>

HexNext == ParseHex \/ HexToRgb \/ RgbToHex \/ NewFromHex

HexSpec == HexInit /\ [][HexNext]_vars

\* ------------------------------------------ parseRgb and parseHsl alone

\* Misspelt and other strings handed to parseRgb and parseHsl directly.
MisspeltStrings ==
    {"rbg(0,0,0)", "hls(0,0,0)", "RGB(0, 0, 0)", "HSL(0, 0%, 0%)", "rgb", "hsl", "#FFF",
     "rgb(0,0,0)", "hsl(0,0%,0%)", "rgb(0, 0, 0", "hsl(0, 0, 0)", "rgb(1000, 0, 0)",
     "rgb(0, 0, 0, 1.5)", "hsl(0, 0%, 0%, 1.5)", "hsl(400, 0%, 0%)", "hsl(0, 0%, 101%)"}

ParseStrings == ColorStrings \cup MisspeltStrings

\* A caller holds a string and is about to hand it to parseRgb or to parseHsl.
ParseInit ==
    /\ string \in ParseStrings
    /\ pc \in {"parseRgb", "parseHsl"}
    /\ parsed = Pending /\ decoded = Pending /\ encoded = Pending
    /\ color = Color_white
    /\ last = Call("preset", <<"white">>, "none")
    /\ steps = 0
    /\ instances = <<>> /\ ref = 0
    /\ arguments = <<>> /\ returned = Pending
    /\ number = 0 /\ decimals = 0 /\ rounded = 0

\* parsed = parseRgb(string)
ParseRgb ==
    /\ pc = "parseRgb"
    /\ parsed' = parseRgb(string)
    /\ pc' = "parsedRgb"
    /\ UNCHANGED <<string, decoded, encoded>>
    /\ UNCHANGED <<colorVars, heapVars, roundVars, callVars>>

\* parsed = parseHsl(string)
ParseHsl ==
    /\ pc = "parseHsl"
    /\ parsed' = parseHsl(string)
    /\ pc' = "parsedHsl"
    /\ UNCHANGED <<string, decoded, encoded>>
    /\ UNCHANGED <<colorVars, heapVars, roundVars, callVars>>

ParseNext == ParseRgb \/ ParseHsl

ParseSpec == ParseInit /\ [][ParseNext]_vars


\* ------------------------------------------------------ the round helper

\* The numbers handed to round are the eighths up to MaxEighths / 8 in
\* magnitude: number * 10 ** decimals is exact for them, and they include the
\* halves of every decimal count used (2.5, 0.25, 0.125).
MaxEighths == 24

RoundInputs == {125 * k : k \in -MaxEighths..MaxEighths}

\* round is called with decimals omitted (0) and with 2; 1 lies between.
RoundDecimals == {0, 1, 2}

RoundInit ==
    /\ number \in RoundInputs /\ decimals \in RoundDecimals /\ rounded = 0
    /\ pc = "round"
    /\ string = "" /\ parsed = Pending /\ decoded = Pending /\ encoded = Pending
    /\ color = Color_white
    /\ last = Call("preset", <<"white">>, "none")
    /\ steps = 0
    /\ instances = <<>> /\ ref = 0
    /\ arguments = <<>> /\ returned = Pending

\* rounded = round(number, decimals)
Round ==
    /\ pc = "round"
    /\ rounded' = round(number, decimals)
    /\ pc' = "rounded"
    /\ UNCHANGED <<number, decimals, string, parsed, decoded, encoded>>
    /\ UNCHANGED <<colorVars, heapVars, callVars>>

RoundNext == Round

RoundSpec == RoundInit /\ [][RoundNext]_vars

\* ---------------------------------------------------- the conversions alone

\* The channel values handed to rgbToHsl: the ends of the range, near-black
\* and near-white values, and values whose differences make the hue a half.
ChannelSamples == {0, 1, 2, 3, 6, 31, 62, 64, 120, 127, 128, 192, 240, 253, 254, 255}

NoArguments ==
    /\ string = "" /\ parsed = Pending /\ decoded = Pending /\ encoded = Pending
    /\ color = Color_white
    /\ last = Call("preset", <<"white">>, "none")
    /\ steps = 0
    /\ instances = <<>> /\ ref = 0
    /\ number = 0 /\ decimals = 0 /\ rounded = 0

ConvertInit ==
    /\ arguments \in {<<N(r), N(g), N(b)>> : r \in ChannelSamples, g \in ChannelSamples, b \in ChannelSamples}
    /\ returned = Pending
    /\ pc = "rgbToHsl"
    /\ NoArguments

\* returned = rgbToHsl(red, green, blue)
RgbToHsl ==
    /\ pc = "rgbToHsl"
    /\ returned' = rgbToHsl(arguments[1], arguments[2], arguments[3], undefined)
    /\ pc' = "converted"
    /\ UNCHANGED <<arguments, string, parsed, decoded, encoded>>
    /\ UNCHANGED <<colorVars, heapVars, roundVars>>

ConvertNext == RgbToHsl

ConvertSpec == ConvertInit /\ [][ConvertNext]_vars

\* The argument lists handed to validateHsl: hues around both ends of
\* [0, 360), fractions around both ends of [0, 1], alpha omitted or given.
ValidateHues == {NaN, N(-1), -500, 0, 500, N(120), N(359), 359400, 359500, 359900, N(360)}
ValidateFractions == {NaN, -10, 0, 4, 125, 500, 875, 999, N(1), 1100}
ValidateAlphas == {undefined, 0, 500, 1010}

ValidateInit ==
    /\ arguments \in {<<h, s, l, a>> : h \in ValidateHues, s \in ValidateFractions,
                                       l \in ValidateFractions, a \in ValidateAlphas}
    /\ returned = Pending
    /\ pc = "validateHsl"
    /\ NoArguments

\* returned = validateHsl(hue, saturation, lightness, alpha)
ValidateHsl ==
    /\ pc = "validateHsl"
    /\ returned' = validateHsl(arguments[1], arguments[2], arguments[3], arguments[4])
    /\ pc' = "validated"
    /\ UNCHANGED <<arguments, string, parsed, decoded, encoded>>
    /\ UNCHANGED <<colorVars, heapVars, roundVars>>

ValidateNext == ValidateHsl

ValidateSpec == ValidateInit /\ [][ValidateNext]_vars

\* The argument lists handed to rgbToHex before hexToRgb decodes the result:
\* a few channel values and every alpha of two decimals.
EncodeChannels == {0, 10, 16, 128, 255}
EncodeAlphas == {10 * k : k \in 0..100}

EncodeInit ==
    /\ arguments \in {<<N(r), N(g), N(b), a>> : r \in EncodeChannels, g \in EncodeChannels,
                                               b \in EncodeChannels, a \in EncodeAlphas}
    /\ returned = Pending
    /\ pc = "rgbToHex"
    /\ NoArguments

\* encoded = rgbToHex(red, green, blue, alpha)
EncodeRgb ==
    /\ pc = "rgbToHex"
    /\ encoded' = rgbToHex(arguments[1], arguments[2], arguments[3], arguments[4])
    /\ pc' = IF rgbToHex(arguments[1], arguments[2], arguments[3], arguments[4]).error = "none"
             THEN "hexToRgb" ELSE "thrown"
    /\ UNCHANGED <<string, parsed, decoded>>
    /\ UNCHANGED <<colorVars, heapVars, roundVars, callVars>>

\* decoded = hexToRgb(encoded)
DecodeHex ==
    /\ pc = "hexToRgb"
    /\ decoded' = hexToRgb(encoded.hex)
    /\ pc' = "decoded"
    /\ UNCHANGED <<string, parsed, encoded>>
    /\ UNCHANGED <<colorVars, heapVars, roundVars, callVars>>

EncodeNext == EncodeRgb \/ DecodeHex

EncodeSpec == EncodeInit /\ [][EncodeNext]_vars

\* ------------------------------------------------- several Color instances

\* How many calls a program with several instances makes.
MaxCalls == 3

\* The calls of Color.rgb and Color.hsl it makes, and the assignments.
InstanceRgbCalls == {<<0, 0, 0, undefined>>, <<N(255), N(255), N(255), 500>>, <<N(256), 0, 0, undefined>>}
InstanceHslCalls == {<<N(120), N(1), 500, undefined>>, <<0, 0, N(1), N(1)>>, <<0, 1100, 0, undefined>>}
InstanceAssignments ==
    {<<"red", 0>>, <<"blue", N(128)>>, <<"hue", N(120)>>, <<"lightness", 0>>,
     <<"alpha", 500>>, <<"saturation", NaN>>}

\* The program holds no instance yet.
InstanceInit ==
    /\ instances = <<>> /\ ref = 0
    /\ arguments = <<>> /\ returned = Pending
    /\ number = 0 /\ decimals = 0 /\ rounded = 0
    /\ color = Color_white
    /\ last = Call("none", <<>>, "none")
    /\ steps = 0
    /\ string = "" /\ pc = "idle"
    /\ parsed = Pending /\ decoded = Pending /\ encoded = Pending

\* Color.white, Color.black, ...: one more object
GetInstance ==
    /\ steps < MaxCalls
    /\ \E name \in ColorNames :
         \E result \in {Color_get(instances, name)} :
             /\ instances' = result.heap
             /\ ref' = result.ref
             /\ last' = Call("preset", <<name>>, result.error)
    /\ steps' = steps + 1
    /\ UNCHANGED <<color, hexVars, roundVars, callVars>>

\* Color.rgb(red, green, blue, alpha)
RgbInstance ==
    /\ steps < MaxCalls
    /\ \E a \in InstanceRgbCalls :
         \E result \in {Color_rgb_instance(instances, a[1], a[2], a[3], a[4])} :
             /\ instances' = result.heap
             /\ ref' = result.ref
             /\ last' = Call("rgb", a, result.error)
    /\ steps' = steps + 1
    /\ UNCHANGED <<color, hexVars, roundVars, callVars>>

\* Color.hsl(hue, saturation, lightness, alpha)
HslInstance ==
    /\ steps < MaxCalls
    /\ \E a \in InstanceHslCalls :
         \E result \in {Color_hsl_instance(instances, a[1], a[2], a[3], a[4])} :
             /\ instances' = result.heap
             /\ ref' = result.ref
             /\ last' = Call("hsl", a, result.error)
    /\ steps' = steps + 1
    /\ UNCHANGED <<color, hexVars, roundVars, callVars>>

\* one of the instances: instance.field = value
SetInstance ==
    /\ steps < MaxCalls
    /\ \E i \in 1..Len(instances) : \E a \in InstanceAssignments :
         \E result \in {Assign(instances[i], a[1], a[2])} :
             /\ instances' = [instances EXCEPT ![i] = result.this]
             /\ last' = Call("set", <<a[1], a[2], i>>, result.error)
    /\ steps' = steps + 1
    /\ UNCHANGED <<color, ref, hexVars, roundVars, callVars>>

InstanceNext == GetInstance \/ RgbInstance \/ HslInstance \/ SetInstance

InstanceSpec == InstanceInit /\ [][InstanceNext]_vars

\* ----------------------------------------------------------------- claims

\* The values the spec allows the stored fields to take.
Bytes == {N(n) : n \in 0..255}
Hundredths == {10 * n : n \in 0..100}
Degrees == {N(n) : n \in 0..359}

\* C1: a setter call that validation rejects throws and leaves all eight
\* stored fields as they were before the call, however many such calls
\* follow one another.
C1_RejectedSetterKeepsState ==
    [][(last'.op = "set" /\ last'.error # "none") => color' = color]_vars

\* A rejected assignment that followed another operation.
C1_Witness == steps = 2 /\ last.op = "set" /\ last.error = "InvalidHSLCode"

\* C2: in every reachable state whose alpha is a number, decoding the stored
\* hexCode with hexToRgb gives exactly the stored red, green, blue and alpha.
C2_HexDecodesToStored ==
    ~isNaN(color.alpha) =>
        hexToRgb(color.hexCode) =
            [error |-> "none", red |-> color.red, green |-> color.green,
             blue |-> color.blue, alpha |-> color.alpha]

\* A translucent colour after a successful assignment on the HSL path.
C2_Witness ==
    /\ last.op = "set" /\ last.args[1] = "hue" /\ last.error = "none"
    /\ color.alpha = 500

\* C3: in every reachable state the stored (hue, saturation, lightness) is
\* rgbToHsl of the stored (red, green, blue), or the stored (red, green, blue)
\* is hslToRgb of the stored (hue, saturation, lightness).
C3_HslFromRgb ==
    LET hsl == rgbToHsl(color.red, color.green, color.blue, undefined)
    IN  /\ hsl.error = "none"
        /\ <<hsl.hue, hsl.saturation, hsl.lightness>>
               = <<color.hue, color.saturation, color.lightness>>

C3_RgbFromHsl ==
    LET rgb == hslToRgb(color.hue, color.saturation, color.lightness, undefined)
    IN  /\ rgb.error = "none"
        /\ <<rgb.red, rgb.green, rgb.blue>> = <<color.red, color.green, color.blue>>

C3_TriplesLinked == C3_HslFromRgb \/ C3_RgbFromHsl

\* A state an assignment on the HSL path produced, where only the second
\* link holds.
C3_Witness ==
    /\ last.op = "set" /\ last.args[1] = "saturation" /\ last.error = "none"
    /\ ~C3_HslFromRgb

\* C4: in every reachable state whose alpha is a number, red, green and blue
\* are integers in 0..255 and alpha is a multiple of 0.01 in [0, 1], also
\* when they come from hslToRgb.
C4_RgbRanges ==
    ~isNaN(color.alpha) =>
        /\ color.red \in Bytes /\ color.green \in Bytes /\ color.blue \in Bytes
        /\ color.alpha \in Hundredths

\* Grey, reached from white by assigning lightness: the channels come from
\* hslToRgb.
C4_Witness ==
    /\ last = Call("set", <<"lightness", 500>>, "none")
    /\ color.red = N(128) /\ color.hue = 0

\* C5: in every reachable state hue is an integer in 0..359 and saturation
\* and lightness are multiples of 0.01 in [0, 1].
C5_HslRanges ==
    /\ color.hue \in Degrees
    /\ color.saturation \in Hundredths
    /\ color.lightness \in Hundredths

\* C6: for every valid hex string, hexToRgb followed by rgbToHex on the decoded
\* red, green, blue and alpha returns exactly parseHex of the string, whatever
\* the alpha byte.
C6_HexRoundTrip == pc = "done" => encoded = parsed

C8_Validators ==
    /\ validateHsl(N(359), N(1), 500, undefined).error = "none"
    /\ validateHsl(N(360), N(1), 500, undefined).error = "InvalidHSLCode"
    /\ validateHsl(0, 0, 0, N(1)).error = "none"
    /\ validateHsl(0, 0, 0, 1010).error = "InvalidHSLCode"
    /\ \A i \in 1..3 :
         LET channels(value) == [j \in 1..3 |-> IF j = i THEN value ELSE 0]
             validated(value) ==
                 validateRgb(channels(value)[1], channels(value)[2], channels(value)[3],
                             undefined)
         IN  /\ validated(N(255)).error = "none"
             /\ validated(N(256)).error = "InvalidRGBCode"
             /\ validated(N(-1)).error = "InvalidRGBCode"
    /\ validateRgb(0, 0, 0, N(1)).error = "none"
    /\ validateRgb(0, 0, 0, 1010).error = "InvalidRGBCode"

C8_Factories ==
    /\ last.op = "hsl" =>
         /\ last.args[1] = N(360) => last.error = "InvalidHSLCode"
         /\ last.args[4] = 1010 => last.error = "InvalidHSLCode"
         /\ (/\ last.args[1] \in {0, N(359)}
             /\ last.args[2] \in Hundredths /\ last.args[3] \in Hundredths
             /\ last.args[4] \in {undefined, N(1)}) => last.error = "none"
    /\ last.op = "rgb" =>
         /\ (\E i \in 1..3 : last.args[i] \in {N(256), N(-1)})
                => last.error = "InvalidRGBCode"
         /\ last.args[4] = 1010 => last.error = "InvalidRGBCode"
         /\ (/\ \A i \in 1..3 : last.args[i] \in {0, N(255)}
             /\ last.args[4] \in {undefined, N(1)}) => last.error = "none"

C8_Setters ==
    last.op = "set" =>
        /\ last.args = <<"hue", N(359)>> => last.error = "none"
        /\ last.args = <<"hue", N(360)>> => last.error = "InvalidHSLCode"
        /\ last.args[1] \in {"red", "green", "blue"} =>
             /\ last.args[2] = N(255) => last.error = "none"
             /\ last.args[2] \in {N(256), N(-1)} => last.error = "InvalidRGBCode"
        /\ last.args = <<"alpha", N(1)>> => last.error = "none"
        /\ last.args = <<"alpha", 1010>> => last.error = "InvalidRGBCode"

C8_Boundaries == C8_Validators /\ C8_Factories /\ C8_Setters

\* Where C8 does hold: the hue setter rejects 359 only when the stored
\* saturation or lightness is itself outside its range (a rejected assignment
\* leaves them as they were), and everything else in C8 holds throughout.
C8_BoundariesOfValidState ==
    /\ C8_Validators /\ C8_Factories
    /\ \/ C8_Setters
       \/ /\ last = Call("set", <<"hue", N(359)>>, "InvalidHSLCode")
          /\ ~(color.saturation \in Hundredths /\ color.lightness \in Hundredths)

\* The factory call that matches an assignment: the previous fields of the
\* instance with the assigned one replaced.
C9_Factory(this, field, value) ==
    CASE field = "red" -> Color_rgb(value, this.green, this.blue, this.alpha)
      [] field = "green" -> Color_rgb(this.red, value, this.blue, this.alpha)
      [] field = "blue" -> Color_rgb(this.red, this.green, value, this.alpha)
      [] field = "alpha" -> Color_rgb(this.red, this.green, this.blue, value)
      [] field = "hue" -> Color_hsl(value, this.saturation, this.lightness, this.alpha)
      [] field = "saturation" -> Color_hsl(this.hue, value, this.lightness, this.alpha)
      [] field = "lightness" -> Color_hsl(this.hue, this.saturation, value, this.alpha)

\* What white becomes when red is assigned 0.
C9_WhiteWithoutRed == set_red(Color_white, 0).this

\* C9: after a successful assignment c.X = v, all eight fields of c equal
\* those of a fresh colour built by the matching factory (Color.rgb for red,
\* green, blue and alpha, Color.hsl for hue, saturation and lightness) from
\* the previous fields of c with X replaced by v; from white, lightness = 0.5
\* gives "#808080FF", red = 0 then blue = 0 gives "#00FF00FF", and
\* lightness = 0 gives "#000000FF".
C9_MutationConsistency ==
    [][last'.op = "set" =>
         /\ last'.error = "none" =>
              \E fresh \in {C9_Factory(color, last'.args[1], last'.args[2])} :
                  fresh.error = "none" /\ color' = fresh.this
         /\ (last'.args = <<"lightness", 500>> /\ color = Color_white) =>
              last'.error = "none" /\ color'.hexCode = "#808080FF"
         /\ (last'.args = <<"lightness", 0>> /\ color = Color_white) =>
              last'.error = "none" /\ color'.hexCode = "#000000FF"
         /\ (last'.args = <<"blue", 0>> /\ color = C9_WhiteWithoutRed) =>
              last'.error = "none" /\ color'.hexCode = "#00FF00FF"]_vars

\* Green, reached from white by assigning red = 0 and then blue = 0.
C9_Witness ==
    /\ steps = 2 /\ last = Call("set", <<"blue", 0>>, "none")
    /\ color.hexCode = "#00FF00FF" /\ color.hue = N(120)

\* C10: whenever parseHex accepts its input, it returns "#" followed by
\* exactly eight upper-case hex digits: the digits of a 3-digit form each
\* doubled and then FF, those of a 6-digit form and then FF, those of an
\* 8-digit form, all in upper case.
C10_ParseHexNormalises ==
    /\ parsed.error \in {"none", "pending", "InvalidHexCode"}
    /\ parsed.error = "none" =>
         /\ Len(parsed.hex) = 9 /\ Ch(parsed.hex, 1) = "#"
         /\ \A i \in 2..9 : IndexOf(HexDigitsUpper, Ch(parsed.hex, i)) # 0
         /\ Len(string) \in {4, 7, 9}
         /\ Len(string) = 4 =>
              /\ \A i \in 1..3 :
                   /\ Ch(parsed.hex, 2 * i) = UpperChar(Ch(string, i + 1))
                   /\ Ch(parsed.hex, 2 * i + 1) = UpperChar(Ch(string, i + 1))
              /\ SubSeq(parsed.hex, 8, 9) = "FF"
         /\ Len(string) = 7 =>
              /\ \A i \in 2..7 : Ch(parsed.hex, i) = UpperChar(Ch(string, i))
              /\ SubSeq(parsed.hex, 8, 9) = "FF"
         /\ Len(string) = 9 =>
              \A i \in 2..9 : Ch(parsed.hex, i) = UpperChar(Ch(string, i))
         /\ string = "#FFF" => parsed.hex = "#FFFFFFFF"
         /\ string = "#fefefefe" => parsed.hex = "#FEFEFEFE"

\* A lower-case string of eight digits, parsed.
C10_Witness == pc = "decode" /\ string = "#fefefefe" /\ parsed.hex = "#FEFEFEFE"

\* "#" followed by four hex digits: the shorthand with an alpha digit.
C11_ShorthandWithAlpha ==
    Len(string) = 5 /\ Ch(string, 1) = "#" /\ \A i \in 2..5 : Ch(string, i) \in HexChars

\* "#" followed by exactly three, six or eight hex digits.
C11_ThreeSixOrEight ==
    /\ Len(string) \in {4, 7, 9} /\ Ch(string, 1) = "#"
    /\ \A i \in 2..Len(string) : Ch(string, i) \in HexChars

C13_Expected(alpha) ==
    IF alpha = undefined THEN N(1)
    ELSE IF alpha = NaN THEN NaN
    ELSE 10 * ((alpha + 5) \div 10)

\* The two alpha digits rgbToHex writes for an alpha.
C13_AlphaDigits(alpha) ==
    IF alpha = NaN THEN "NAN" ELSE toUpperCase(ToHex2(((alpha * 255 + 500) \div 1000)))

\* C13: validateRgb, validateHsl, rgbToHex, rgbToHsl, hslToRgb, parseRgb,
\* parseHsl, Color.rgb and Color.hsl give alpha 1 when the alpha argument is
\* omitted and otherwise the supplied alpha rounded to two decimals; a
\* supplied alpha of 0 stays 0 and gives "#00000000" for transparent black;
\* a hex string without alpha digits gives alpha 1.
C13_AlphaDefaulting ==
    /\ (last.op = "rgb" /\ last.error = "none") =>
         \E a \in {last.args} : \E expected \in {C13_Expected(last.args[4])} :
             /\ color.alpha = expected
             /\ validateRgb(a[1], a[2], a[3], a[4]).alpha = expected
             /\ rgbToHsl(a[1], a[2], a[3], a[4]).alpha = expected
             /\ rgbToHex(a[1], a[2], a[3], a[4]).hex = color.hexCode
             /\ SubSeq(color.hexCode, 8, Len(color.hexCode)) = C13_AlphaDigits(expected)
    /\ (last.op = "hsl" /\ last.error = "none") =>
         \E a \in {last.args} : \E expected \in {C13_Expected(last.args[4])} :
             /\ color.alpha = expected
             /\ validateHsl(a[1], a[2], a[3], a[4]).alpha = expected
             /\ hslToRgb(a[1], a[2], a[3], a[4]).alpha = expected
             /\ SubSeq(color.hexCode, 8, Len(color.hexCode)) = C13_AlphaDigits(expected)
    /\ (last.op = "new" /\ last.error = "none") =>
         \E input \in {last.args[1]} :
             /\ (Ch(input, 1) = "#" /\ Len(input) \in {4, 7}) =>
                  color.alpha = N(1) /\ SubSeq(color.hexCode, 8, 9) = "FF"
             /\ (Ch(input, 1) # "#" /\ Includes(input, "rgb")) =>
                  \E expected \in {C13_Expected(MatchFunctional(input, "rgb", FALSE).groups[4])} :
                      /\ (Ch(input, 4) # "a" => expected = N(1))
                      /\ parseRgb(input).alpha = expected /\ color.alpha = expected
             /\ (Ch(input, 1) # "#" /\ ~Includes(input, "rgb")) =>
                  \E expected \in {C13_Expected(MatchFunctional(input, "hsl", TRUE).groups[4])} :
                      /\ (Ch(input, 4) # "a" => expected = N(1))
                      /\ parseHsl(input).alpha = expected /\ color.alpha = expected
    /\ (\/ last.op \in {"rgb", "hsl"} /\ last.args = <<0, 0, 0, 0>>
        \/ /\ last.op = "new"
           /\ last.args[1] \in {"rgba(0, 0, 0, 0)", "hsla(0, 0%, 0%, 0)", "#00000000"})
        => last.error = "none" /\ color.alpha = 0 /\ color.hexCode = "#00000000"

\* Transparent black from Color.rgb(0, 0, 0, 0).
C13_Witness ==
    last = Call("rgb", <<0, 0, 0, 0>>, "none") /\ color.alpha = 0 /\ color.hexCode = "#00000000"

\* C14: parseRgb fails with InvalidColor when the string does not have the
\* rgb shape at all, as the misspelling "rbg(0,0,0)", and with InvalidRGBCode
\* only when it has; parseHsl likewise fails with InvalidColor for
\* "hls(0,0,0)" and with InvalidHSLCode only for a string of the hsl shape.
C14_MisspellingIsInvalidColor ==
    /\ pc = "parsedRgb" =>
         /\ ~Includes(string, "rgb") => parsed = Throw("InvalidColor")
         /\ parsed = Throw("InvalidRGBCode") => Includes(string, "rgb")
    /\ pc = "parsedHsl" =>
         /\ ~Includes(string, "hsl") => parsed = Throw("InvalidColor")
         /\ parsed = Throw("InvalidHSLCode") => Includes(string, "hsl")

\* What the code does instead: neither function ever fails with
\* InvalidColor; every string the regular expression does not match, the
\* misspellings included, fails with the codec's own error.
C14_NeverInvalidColor ==
    /\ pc = "parsedRgb" =>
         /\ parsed.error \in {"none", "InvalidRGBCode"}
         /\ ~MatchFunctional(string, "rgb", FALSE).matched => parsed = Throw("InvalidRGBCode")
    /\ pc = "parsedHsl" =>
         /\ parsed.error \in {"none", "InvalidHSLCode"}
         /\ ~MatchFunctional(string, "hsl", TRUE).matched => parsed = Throw("InvalidHSLCode")

\* C15: new Color(string) hands a string that starts with "#" to the Hex
\* codec alone (it succeeds or fails with InvalidHexCode), any other string
\* that contains "rgb" to the RGB codec alone (success or InvalidRGBCode),
\* any other that contains "hsl" to the HSL codec alone (success or
\* InvalidHSLCode), and fails with InvalidColor for every other string; a
\* failed construction never yields a colour.
C15_RoutedByContent ==
    [][last'.op = "new" =>
         \E input \in {last'.args[1]} :
             /\ Ch(input, 1) = "#" =>
                  /\ last'.error = parseHex(input).error
                  /\ last'.error \in {"none", "InvalidHexCode"}
                  /\ last'.error = "none" => color'.hexCode = parseHex(input).hex
             /\ (Ch(input, 1) # "#" /\ Includes(input, "rgb")) =>
                  /\ last'.error = parseRgb(input).error
                  /\ last'.error \in {"none", "InvalidRGBCode"}
                  /\ last'.error = "none" =>
                       <<color'.red, color'.green, color'.blue>> =
                           <<parseRgb(input).red, parseRgb(input).green, parseRgb(input).blue>>
             /\ (Ch(input, 1) # "#" /\ ~Includes(input, "rgb") /\ Includes(input, "hsl")) =>
                  /\ last'.error = parseHsl(input).error
                  /\ last'.error \in {"none", "InvalidHSLCode"}
                  /\ last'.error = "none" =>
                       <<color'.hue, color'.saturation, color'.lightness>> =
                           <<parseHsl(input).hue, parseHsl(input).saturation,
                             parseHsl(input).lightness>>
             /\ (Ch(input, 1) # "#" /\ ~Includes(input, "rgb") /\ ~Includes(input, "hsl")) =>
                  last'.error = "InvalidColor"
             /\ input \in {"FFFFFF", "rbg(0, 0, 0)", "hls(0, 0, 0)", ""} =>
                  last'.error = "InvalidColor"
             /\ last'.error # "none" =>
                  constructor(input) = Throw(last'.error) /\ color' = color]_vars

\* The misspelling "rbg(0, 0, 0)", rejected with InvalidColor.
C15_Witness == last = Call("new", <<"rbg(0, 0, 0)">>, "InvalidColor") /\ steps = 1

\* C16: validateRgb, and with it rgbToHex, rgbToHsl, Color.rgb and the alpha
\* setter, fails with InvalidRGBCode whenever an alpha is provided that is
\* not a number or lies outside [0, 1]; a NaN alpha never reaches the stored
\* fields or the hex string.
C16_BadAlphaRejected ==
    /\ (last.op = "rgb" /\ last.args[4] # undefined
            /\ (last.args[4] = NaN \/ last.args[4] < 0 \/ last.args[4] > N(1))) =>
         /\ last.error = "InvalidRGBCode"
         /\ \E a \in {last.args} :
              /\ validateRgb(a[1], a[2], a[3], a[4]) = Throw("InvalidRGBCode")
              /\ rgbToHex(a[1], a[2], a[3], a[4]) = Throw("InvalidRGBCode")
              /\ rgbToHsl(a[1], a[2], a[3], a[4]) = Throw("InvalidRGBCode")
    /\ (last.op = "set" /\ last.args[1] = "alpha"
            /\ (last.args[2] = NaN \/ last.args[2] < 0 \/ last.args[2] > N(1))) =>
         last.error = "InvalidRGBCode"
    /\ color.alpha # NaN
    /\ ~Includes(color.hexCode, "NAN")

\* Where C16 does hold: a provided alpha that is a number outside [0, 1] is
\* rejected with InvalidRGBCode by Color.rgb and by the alpha setter.
C16_NumericBadAlphaRejected ==
    /\ (last.op = "rgb" /\ last.args[4] \notin {undefined, NaN}
            /\ (last.args[4] < 0 \/ last.args[4] > N(1))) => last.error = "InvalidRGBCode"
    /\ (last.op = "set" /\ last.args[1] = "alpha" /\ last.args[2] # NaN
            /\ (last.args[2] < 0 \/ last.args[2] > N(1))) => last.error = "InvalidRGBCode"

\* C17: toHsl() returns the string hsla(H, S%, L%, A) built from hue,
\* saturation * 100, lightness * 100 and alpha, a string that parseHsl and the
\* constructor accept; new Color("#0F0").toHsl() is "hsla(120, 100%, 50%, 1)".
C17_ToHslAccepted ==
    \E hsl \in {toHsl(color)} :
        /\ SubSeq(hsl, 1, 5) = "hsla("
        /\ parseHsl(hsl).error = "none"
        /\ constructor(hsl).error = "none"
        /\ (color = constructor("#0F0").this => hsl = "hsla(120, 100%, 50%, 1)")

\* What toHsl() does return for the colour of the README: the name is
\* spelt hlsa.
C17_ReadmeExample == toHsl(constructor("#0F0").this) = "hlsa(120, 100%, 50%, 1)"

\* With the name spelt hsla the string would still not always be accepted.
C17_ArgumentsAccepted == parseHsl("hsla" \o HslArguments(color)).error = "none"

\* C18: toRgb() returns the string rgba(R, G, B, A), and new Color(c.toRgb())
\* succeeds for every colour c and has the same red, green, blue and alpha.
C18_ToRgbReparses ==
    \E copy \in {constructor(toRgb(color))} :
        /\ SubSeq(toRgb(color), 1, 5) = "rgba("
        /\ copy.error = "none"
        /\ copy.this.red = color.red /\ copy.this.green = color.green
        /\ copy.this.blue = color.blue /\ copy.this.alpha = color.alpha

\* Where C18 does hold: every colour whose alpha is a number.
C18_NumericAlphaReparses ==
    color.alpha # NaN =>
        \E copy \in {constructor(toRgb(color))} :
            /\ copy.error = "none"
            /\ copy.this.red = color.red /\ copy.this.green = color.green
            /\ copy.this.blue = color.blue /\ copy.this.alpha = color.alpha

\* C19: every preset access and every successful Color.rgb or Color.hsl call
\* returns a new instance, none of those that existed before, and leaves those
\* unchanged; an assignment to one instance leaves every other instance
\* unchanged; and a preset accessed later still has the preset's colour.
C19_NewInstances ==
    [][/\ (last'.op \in {"preset", "rgb", "hsl"} /\ last'.error = "none") =>
            /\ ref' \notin 1..Len(instances)
            /\ ref' \in 1..Len(instances')
            /\ \A i \in 1..Len(instances) : instances'[i] = instances[i]
       /\ (last'.op \in {"rgb", "hsl"} /\ last'.error # "none") => instances' = instances
       /\ last'.op = "preset" => instances'[ref'] = Preset(last'.args[1]).this
       /\ last'.op = "set" =>
            /\ Len(instances') = Len(instances)
            /\ \A i \in 1..Len(instances) :
                   i # last'.args[3] => instances'[i] = instances[i]
      ]_vars

\* White was accessed and its red assigned 0, then white was accessed again:
\* the second instance is white, the first keeps the assignment.
C19_Witness ==
    /\ Len(instances) = 2 /\ last = Call("preset", <<"white">>, "none") /\ ref = 2
    /\ instances[1] = C9_WhiteWithoutRed /\ instances[2] = Color_white

\* The multiple of 10 ^ -decimals nearest to number, a half going away from
\* zero.
C20_HalfAwayFromZero(x, places) ==
    LET unit == 10 ^ (3 - places)
        magnitude == unit * ((2 * Abs(x) + unit) \div (2 * unit))
    IN  IF x < 0 THEN -magnitude ELSE magnitude

\* C20: round(value, decimals) rounds half away from zero for every value,
\* negative ones included (round(-2.5) = -3, round(2.5) = 3), and with
\* decimals = 0 the result is an integer.
C20_RoundsHalfAwayFromZero ==
    pc = "rounded" =>
        /\ rounded = C20_HalfAwayFromZero(number, decimals)
        /\ decimals = 0 => rounded % 1000 = 0

\* What round does: a half goes up, toward +Infinity, so round(-2.5) is -2;
\* the result is the nearest multiple otherwise, and an integer for decimals = 0.
C20_RoundsHalfUp ==
    pc = "rounded" =>
        LET unit == 10 ^ (3 - decimals)
        IN  /\ rounded % unit = 0
            /\ 2 * (number - rounded) < unit /\ 2 * (rounded - number) <= unit
            /\ decimals = 0 => rounded % 1000 = 0
            /\ number >= 0 => rounded = C20_HalfAwayFromZero(number, decimals)
            /\ (number = -2500 /\ decimals = 0) => rounded = -2000

\* The six-sector value of a chromatic triple is
\* (numerator + offset * delta) / delta: numerator and offset by which channel
\* is the maximum.
C21_Sector(r, g, b) ==
    LET max == Max3(r, g, b)
        delta == max - Min3(r, g, b)
    IN  IF max = r THEN [numerator |-> g - b, offset |-> 0, delta |-> delta]
        ELSE IF max = g THEN [numerator |-> b - r, offset |-> 2, delta |-> delta]
        ELSE [numerator |-> r - g, offset |-> 4, delta |-> delta]

C22_SaturationLightnessInRange ==
    pc = "converted" =>
        /\ returned.saturation \in 0..N(1)
        /\ returned.lightness \in 0..N(1)

\* Where C22 does hold: the lightness, and the saturation of a triple of equal
\* channels.
C22_LightnessInRange ==
    pc = "converted" =>
        /\ returned.lightness \in 0..N(1)
        /\ (arguments[1] = arguments[2] /\ arguments[2] = arguments[3]) => returned.saturation = 0

\* C23: for every input that validateHsl accepts, the hue returned is an
\* integer in 0..359 and saturation and lightness are 2-decimal values in
\* [0, 1]; hues such as 359.5 or 359.9 do not give a returned hue of 360.
C23_ValidatedHueInRange ==
    (pc = "validated" /\ returned.error = "none") =>
        /\ returned.hue \in {N(h) : h \in 0..359}
        /\ returned.saturation \in {10 * k : k \in 0..100}
        /\ returned.lightness \in {10 * k : k \in 0..100}

\* Where C23 does hold: hues below 359.5, and the saturation and lightness of
\* every accepted input.
C23_ValidatedBelowLastHalf ==
    (pc = "validated" /\ returned.error = "none") =>
        /\ arguments[1] < 359500 => returned.hue \in {N(h) : h \in 0..359}
        /\ arguments[1] >= 359500 => returned.hue = N(360)
        /\ returned.saturation \in {10 * k : k \in 0..100}
        /\ returned.lightness \in {10 * k : k \in 0..100}

\* C24: a successful assignment to one field leaves the other fields of its
\* triple and alpha unchanged: red, green or blue leaves the other two
\* channels and alpha; hue, saturation or lightness leaves the other two HSL
\* fields and alpha; alpha leaves red, green and blue.
C24_UntouchedFieldsKept ==
    [][(last'.op = "set" /\ last'.error = "none") =>
          LET field == last'.args[1]
              owning == IF field \in {"red", "green", "blue"} THEN {"red", "green", "blue", "alpha"}
                        ELSE IF field = "alpha" THEN {"red", "green", "blue"}
                        ELSE {"hue", "saturation", "lightness", "alpha"}
          IN  \A other \in owning \ {field} : color'[other] = color[other]
      ]_vars

\* Blue was assigned 128 on a colour whose red and green differ, after an
\* earlier assignment.
C24_Witness ==
    /\ steps = 2 /\ last = Call("set", <<"blue", N(128)>>, "none")
    /\ color.red # color.green /\ color.blue = N(128)

\* C25: in every reachable state, rgbToHex of the stored red, green, blue and
\* alpha is the stored hexCode, so assigning red its current value never
\* changes toHex(); colours constructed from an 8-digit hex string with any
\* alpha byte included.
C25_StoredHexIsEncoding ==
    /\ rgbToHex(color.red, color.green, color.blue, color.alpha)
         = [error |-> "none", hex |-> color.hexCode]
    /\ toHex(set_red(color, color.red).this) = toHex(color)

\* Where C25 does hold: the colours constructed from a string without alpha
\* digits.
C25_OpaqueHexIsEncoding ==
    (last.op = "new" /\ last.error = "none" /\ Len(string) \in {4, 7}) =>
        /\ rgbToHex(color.red, color.green, color.blue, color.alpha)
             = [error |-> "none", hex |-> color.hexCode]
        /\ toHex(set_red(color, color.red).this) = toHex(color)

\* C26: for all integers red, green, blue in 0..255 and every alpha that is a
\* multiple of 0.01 in [0, 1], hexToRgb(rgbToHex(red, green, blue, alpha))
\* returns exactly (red, green, blue, alpha).
C26_EncodeDecode ==
    /\ pc # "thrown"
    /\ pc = "decoded" =>
         decoded = [error |-> "none", red |-> arguments[1], green |-> arguments[2],
                    blue |-> arguments[3], alpha |-> arguments[4]]

\* rgbToHex(255, 0, 128, 0.63) is "#FF0080A1", which decodes to alpha 0.63.
C26_Witness ==
    /\ pc = "decoded" /\ arguments = <<N(255), 0, N(128), 630>>
    /\ encoded.hex = "#FF0080A1" /\ decoded.alpha = 630

\* C27: assigning any field its own current value succeeds and leaves all
\* eight stored fields unchanged, in every reachable state.
C27_SelfAssignmentIsIdentity ==
    \A field \in Fields : Assign(color, field, color[field]) = Returned(color)

\* Where C27 does hold: red, green, blue and alpha of a state that Color.rgb,
\* an rgb() string or one of their four setters produced.
C27_SelfAssignmentAfterRgb ==
    (/\ last.error = "none"
     /\ \/ last.op = "rgb"
        \/ last.op = "new" /\ Includes(last.args[1], "rgb") /\ Ch(last.args[1], 1) # "#"
        \/ last.op = "set" /\ last.args[1] \in {"red", "green", "blue", "alpha"}) =>
        \A field \in {"red", "green", "blue", "alpha"} :
            Assign(color, field, color[field]) = Returned(color)

\* Values of each HSL field inside its range, and of each RGB field and alpha
\* inside theirs.
C28_ValidValues(field) ==
    IF field = "hue" THEN {0, 500, N(120), N(359), 359400, 359500, 359900}
    ELSE {0, 4, 125, 500, 875, 999, N(1)}

C29_ValidValues(field) ==
    IF field = "alpha" THEN {0, 500, N(1)}
    ELSE {0, 254500, N(255)}

\* C28: from every reachable state, assigning hue any value in [0, 360), or
\* saturation or lightness any value in [0, 1], does not throw.
C28_HslAssignmentAccepted ==
    \A field \in {"hue", "saturation", "lightness"} :
        \A value \in C28_ValidValues(field) : Assign(color, field, value).error = "none"

\* Where C28 does hold: hues below 359.5 and every saturation and lightness,
\* on the states whose stored hue, saturation and lightness are in range.
C28_AcceptedOnValidState ==
    validateHsl(color.hue, color.saturation, color.lightness, undefined).error = "none" =>
        \A field \in {"hue", "saturation", "lightness"} :
            \A value \in C28_ValidValues(field) \ {359500, 359900} :
                Assign(color, field, value).error = "none"

\* C29: from every reachable state, assigning red, green or blue any value in
\* [0, 255], or alpha any value in [0, 1], does not throw.
C29_RgbAssignmentAccepted ==
    \A field \in {"red", "green", "blue", "alpha"} :
        \A value \in C29_ValidValues(field) : Assign(color, field, value).error = "none"

\* A colour with saturation Infinity and one with alpha NaN, after an
\* assignment.
C29_Witness ==
    /\ steps = 2 /\ last.op = "set" /\ last.error = "none"
    /\ color.saturation = Infinity \/ color.alpha = NaN

\* C30: a successful assignment to alpha changes only alpha and the alpha
\* digits of hexCode: hue, saturation, lightness, red, green and blue are as
\* before, also after an HSL construction or an HSL-field assignment.
C30_AlphaChangesOnlyAlpha ==
    \A value \in {0, 500, N(1)} :
        \E result \in {set_alpha(color, value)} :
            result.error = "none" =>
                /\ \A field \in {"red", "green", "blue", "hue", "saturation", "lightness"} :
                       result.this[field] = color[field]
                /\ SubSeq(result.this.hexCode, 1, 7) = SubSeq(color.hexCode, 1, 7)

\* Where C30 does hold: red, green, blue and the first six digits of hexCode,
\* in every state; hue, saturation and lightness after the RGB path.
C30_AlphaKeepsChannels ==
    \A value \in {0, 500, N(1)} :
        \E result \in {set_alpha(color, value)} :
            /\ result.error = "none"
            /\ \A field \in {"red", "green", "blue"} : result.this[field] = color[field]
            /\ SubSeq(result.this.hexCode, 1, 7) = SubSeq(color.hexCode, 1, 7)
            /\ (last.error = "none" /\ last.op \in {"rgb", "preset"}) =>
                   \A field \in {"hue", "saturation", "lightness"} :
                       result.this[field] = color[field]

====
